---- MODULE Spec2Model ----
(***************************************************************************)
(* MusicForge API: the per-user rate limiter (rateLimitMiddleware), the    *)
(* usage recorder (logApiUsage) and the Redis counter store they share,    *)
(* as wired on the protected routes of backend/src/index.ts.  The Redis     *)
(* client is utils/redis (src/unnamed/part_005), the database utils/database*)
(* (src/unnamed/part_004), the music controller src/unnamed/part_003.      *)
(*                                                                         *)
(* Time is Date.now() in milliseconds.  The window size and the TTLs are   *)
(* the program's own numbers; the per-plan request quotas are scaled down  *)
(* (FreeRequests, StarterRequests) so that a window can be filled within   *)
(* MaxReqs requests.                                                       *)
(***************************************************************************)
EXTENDS Integers, Sequences, FiniteSets, TLC

\* ------------------------------------------------------------------ bounds
MaxTicks == 2
TickMs == 1800000
MaxReqs == 4
MaxConcReqs == 2
MaxFailReqs == 2
MaxAuthReqs == 2
FreeRequests == 2
StarterRequests == 3
FreeBurstRequests == 1
StarterBurstRequests == 2
RecentCap == 2
MaxTracks == 2
MaxPipeReqs == 1
MaxUpsertRuns == 2
MaxScoreTracks == 4
MaxRaceReqs == 3
MaxGateReqs == 3
MaxPairReqs == 5
MaxStatusReqs == 3
MaxResetReqs == 2
MaxOpCalls == 1

\* ------------------------------------------------------- program constants
WindowMs == 3600000
BurstWindowMs == 60000
UsageCacheSeconds == 3600
AuthCacheSeconds == 300
KeyLength == 67
SearchFanout == 3
DefaultMaxResults == 10
DefaultBpmMax == 200

Reqs == {1, 2}
Users == {"u1", "u2"}
Routes == {"music", "templates", "webhooks"}
NULL == "null"
NoTTL == -1

\* users.plan of the two users of the model
PlanOf(u) == IF u = "u1" THEN "free" ELSE "starter"

\* RATE_LIMITS (rateLimit.ts:7-13), rows of the plans the model's users are on
RATE_LIMITS ==
  [free    |-> [requests |-> FreeRequests,    windowMs |-> WindowMs],
   starter |-> [requests |-> StarterRequests, windowMs |-> WindowMs]]

\* RATE_LIMITS[plan] || RATE_LIMITS.free (rateLimit.ts:36)
LimitsFor(plan) ==
  IF plan \in DOMAIN RATE_LIMITS THEN RATE_LIMITS[plan] ELSE RATE_LIMITS.free

\* the burst columns of the documented RATE_LIMITS table
\* (docs/features/AUTHENTICATION_RATE_LIMITING.md:205-236); the code has none
BurstLimitsFor(plan) ==
  IF plan = "starter"
  THEN [burstRequests |-> StarterBurstRequests, burstWindowMs |-> BurstWindowMs]
  ELSE [burstRequests |-> FreeBurstRequests, burstWindowMs |-> BurstWindowMs]

Ceil(a, b) == (a + b - 1) \div b
Max(a, b) == IF a >= b THEN a ELSE b

\* Math.floor(Date.now() / windowMs) * windowMs (rateLimit.ts:39)
WindowStartOf(t, windowMs) == (t \div windowMs) * windowMs

Times == {i * TickMs : i \in 0..MaxTicks}
WindowStarts == {WindowStartOf(t, WindowMs) : t \in Times}
BurstStarts == {WindowStartOf(t, BurstWindowMs) : t \in Times}
\* `rate_limit:${userId}:${windowStart}` (rateLimit.ts:40)
Keys == Users \X WindowStarts

\* X-API-Key headers: the first three characters, the length, and the user the
\* key is registered to in api_keys (NULL: to nobody).  generateApiKey
\* (auth.ts:134-138) issues 'mf_' + 64 hex characters.
MissingKey == [present |-> FALSE, prefix |-> "", len |-> 0, owner |-> NULL]
IssuedKey(u) == [present |-> TRUE, prefix |-> "mf_", len |-> KeyLength, owner |-> u]
UnknownKey == [present |-> TRUE, prefix |-> "mf_", len |-> KeyLength, owner |-> NULL]
ShortKey == [present |-> TRUE, prefix |-> "mf_", len |-> 6, owner |-> NULL]
ForeignKey == [present |-> TRUE, prefix |-> "sk_", len |-> KeyLength, owner |-> NULL]
RawKeys == {MissingKey, UnknownKey, ShortKey, ForeignKey} \cup {IssuedKey(u) : u \in Users}

\* crypto.createHash('sha256').update(apiKeyHeader).digest('hex') (auth.ts:52):
\* one digest per header value, from which the header cannot be read back
KeyHashOf(k) == <<"sha256", k.prefix, k.len, k.owner>>
KeyHashes == {KeyHashOf(k) : k \in RawKeys}

\* ----------------------------------------------------- processMusic: data
\* external platform IDs of the videos the search collaborator knows
VideoIds == {"X", "Y"}

\* req.body of POST /v1/music/process: request is a string or missing
\* (NULL), maxTracks within the documented 1..50 scaled to 1..MaxTracks
Bodies ==
  [request : {"raw", NULL}, maxTracks : 1..MaxTracks, analyzeAudio : BOOLEAN]
NoReqBody == [request |-> NULL, maxTracks |-> 0, analyzeAudio |-> FALSE]

\* processedQuery.filters: bpm is <<>> when absent
NoFilters == [bpm |-> <<>>]
BpmFilter == [bpm |-> <<[min |-> 120, max |-> 130]>>]

ProcessedQueryOf(terms, filters) ==
  [intent |-> "search", searchTerms |-> terms, filters |-> filters,
   maxResults |-> DefaultMaxResults, sortBy |-> "relevance"]
NoQuery == ProcessedQueryOf(<<>>, NoFilters)

\* what the language model answers with (llm.ts processRequest, the JSON it
\* parses): search terms in priority order, with or without a BPM filter
TermLists == {<<"a">>, <<"a", "b">>, <<"a", "b", "c", "d">>}
LLMQueries ==
  {ProcessedQueryOf(ts, f) : ts \in TermLists, f \in {NoFilters, BpmFilter}}

FallbackQuery_noTerms(userInput) == ProcessedQueryOf(<<>>, NoFilters)

\* the fallback of processRequest's catch (llm.ts, part_008:426-435)
FallbackQuery(userInput) == ProcessedQueryOf(<<userInput>>, NoFilters)

\* the outcomes of llmService.processRequest: the model's answer q, the
\* fallback after the OpenAI call or the parse of its answer failed ("fail"),
\* or a rejection because the cache read before the try block threw ("throw")
LLMOutcomes ==
  {[kind |-> "ok", query |-> q] : q \in LLMQueries}
    \cup {[kind |-> k, query |-> NoQuery] : k \in {"fail", "throw"}}

\* the ID lists a search may return, best match first
HitLists == {<<>>, <<"X">>, <<"Y">>, <<"X", "Y">>, <<"Y", "X">>}

\* YouTubeSearchResult[] of searchMusic(term, maxResults): at most maxResults
\* items, each the copy of the video as found by this term
SearchItems(term, ids) ==
  [i \in 1..Len(ids) |-> [id |-> ids[i], title |-> <<"yt", term>>]]

\* the inputs of calculateConfidenceScore(processedQuery, tracks): a query
\* without a BPM filter, with both bounds or with a lower bound only (0: the
\* bound is absent), and tracks of which the scorer reads analysisStatus and bpm
ScoreFilters == {NoFilters, BpmFilter, [bpm |-> <<[min |-> 120, max |-> 0]>>]}
ScoreQueries == {ProcessedQueryOf(<<"a">>, f) : f \in ScoreFilters}
ScoreTracks ==
  [analysisStatus : {"pending", "completed", "failed"}, bpm : {0, 125, 210}]
ScoreTrackLists == UNION {[1..n -> ScoreTracks] : n \in 0..MaxScoreTracks}
NoScoring ==
  [processedQuery |-> NoQuery, tracks |-> <<>>, called |-> FALSE, confidence |-> 0]

NoRun ==
  [body |-> NoReqBody, llm |-> "none", processedQuery |-> NoQuery,
   searched |-> <<>>, searchResults |-> <<>>, completed |-> <<>>,
   searchFailed |-> FALSE, uniqueResults |-> <<>>, next |-> 1,
   tracks |-> <<>>, failures |-> <<>>, processingSteps |-> <<>>,
   logFailed |-> FALSE, inputs |-> <<>>]

VARIABLES
  now,        \* Date.now()
  store,      \* Redis: rate_limit:* key -> [val, exp]; val = 0: no such key
  recent,     \* Redis: usage:recent:<user> -> [exists, list, exp]
  apiUsage,   \* table api_usage, in insertion order
  req,        \* the requests in flight, one record per slot
  issued,     \* number of requests received so far
  hits,       \* per counter key: requests whose rate-limit check began in it
  bhits,      \* per user and burst window: the same, for the documented burst window
  unhandled,  \* a promise rejection reached process.on('unhandledRejection')
  acct,       \* tables users and api_keys: is_active of each user and of its key
  authCache,  \* Redis: apikey:<hash> -> [exists, data, exp]
  run,        \* per slot: the locals of processMusic for the request in it
  tracksTable,    \* table tracks, its rows in insertion order
  musicRequests,  \* table music_requests, in insertion order
  scoring,        \* a call of calculateConfidenceScore: arguments and result
  admitted,       \* per counter key: requests the rate limiter let through in it
  ops             \* the calls of getRateLimitStatus and resetRateLimit so far

vars == <<now, store, recent, apiUsage, req, issued, hits, bhits,
          unhandled, acct, authCache, run, tracksTable, musicRequests,
          scoring, admitted, ops>>

\* the state of processMusic
pipeVars == <<run, tracksTable, musicRequests, scoring>>

\* the state that the rate limiter, the stub route handlers and the usage
\* recorder leave alone
restVars == <<acct, authCache, pipeVars>>

NoHeaders == [h \in {} |-> 0]
NoBody == [code |-> "none"]
NoInfo == [limit |-> 0, remaining |-> 0, resetTime |-> 0]

\* no call of getRateLimitStatus or resetRateLimit yet.  op: the function
\* called last and how far it is; n: the calls so far; threw: it rejected;
\* info: the RateLimitInfo returned; keys: the keys KEYS returned.  The other
\* fields describe the moment of the call: the window the clock was in, the
\* request in the slot (after: set once it has been admitted), whether the
\* call ran clear of the rate-limit checks of the same user (none under way
\* when it began or ended, none begun in between), and the checks begun per
\* window of the user
NoOp ==
  [op |-> "none", user |-> NULL, n |-> 0, threw |-> FALSE, info |-> NoInfo,
   keys |-> {}, window |-> 0, id |-> 0, after |-> FALSE, clear |-> FALSE,
   hits |-> [w \in WindowStarts |-> 0]]

IdleReq ==
  [pc |-> "idle", id |-> 0, user |-> NULL, route |-> NULL,
   windowStart |-> 0, requestCount |-> 0, ordS |-> 0, ordB |-> 0,
   rateLimitInfo |-> NoInfo, rl |-> "none", storeErr |-> FALSE,
   nextCalls |-> 0, listener |-> FALSE,
   status |-> 0, body |-> NoBody, meta |-> NoInfo, headers |-> NoHeaders,
   by |-> "none", usage |-> NoBody, recentUsage |-> <<>>,
   key |-> MissingKey, keyData |-> <<>>, cacheReads |-> 0, dbReads |-> 0,
   sawInactive |-> "none", cacheErr |-> FALSE, inactiveOnArrival |-> FALSE,
   sent |-> <<>>, authNext |-> 0]

InitServer ==
  /\ now = 0
  /\ store = [k \in Keys |-> [val |-> 0, exp |-> NoTTL]]
  /\ recent = [u \in Users |-> [exists |-> FALSE, list |-> <<>>, exp |-> NoTTL]]
  /\ apiUsage = <<>>
  /\ req = [r \in Reqs |-> IdleReq]
  /\ issued = 0
  /\ hits = [k \in Keys |-> 0]
  /\ admitted = [k \in Keys |-> 0]
  /\ bhits = [u \in Users |-> [b \in BurstStarts |-> 0]]
  /\ unhandled = FALSE
  /\ acct = [userActive |-> [u \in Users |-> TRUE],
             keyActive |-> [u \in Users |-> TRUE]]
  /\ authCache = [h \in KeyHashes |-> [exists |-> FALSE, data |-> <<>>, exp |-> NoTTL]]
  /\ run = [r \in Reqs |-> NoRun]
  /\ tracksTable = <<>>
  /\ musicRequests = <<>>
  /\ ops = NoOp

Init ==
  /\ InitServer
  /\ scoring = NoScoring

\* ------------------------------------------------------------ Redis client
\* RedisClient.get (utils/redis.ts): <<the stored string>>, or <<>> for null
RedisGet(k) == IF store[k].val = 0 THEN <<>> ELSE <<store[k].val>>

\* the counter stepped by two
RedisIncr_twice(k) == [store EXCEPT ![k].val = @ + 2]

\* client.incr: creates the key at 1 without a TTL, or adds one and keeps the TTL
RedisIncr(k) == [store EXCEPT ![k].val = @ + 1]

\* client.expire(key, seconds): (re)sets the TTL of an existing key
RedisExpire(k, seconds) ==
  IF store[k].val = 0 THEN store
  ELSE [store EXCEPT ![k].exp = now + seconds * 1000]

\* Redis drops a key once its TTL has run out
Expired(entry, t) == entry.exp # NoTTL /\ entry.exp <= t

\* ------------------------------------------------------------- environment
Tick ==
  /\ now + TickMs <= MaxTicks * TickMs
  /\ now' = now + TickMs
  /\ store' = [k \in Keys |->
                 IF Expired(store[k], now')
                 THEN [val |-> 0, exp |-> NoTTL] ELSE store[k]]
  /\ recent' = [u \in Users |->
                 IF Expired(recent[u], now')
                 THEN [exists |-> FALSE, list |-> <<>>, exp |-> NoTTL]
                 ELSE recent[u]]
  /\ authCache' = [h \in KeyHashes |->
                 IF Expired(authCache[h], now')
                 THEN [exists |-> FALSE, data |-> <<>>, exp |-> NoTTL]
                 ELSE authCache[h]]
  /\ UNCHANGED <<ops, admitted, apiUsage, req, issued, hits, bhits, unhandled, acct,
                 pipeVars>>

\* --------------------------------------------------------------- responses
\* res.set({...}): adds or overwrites headers
SetHeaders(q, hs) ==
  [q EXCEPT !.headers =
     [h \in DOMAIN q.headers \cup DOMAIN hs |->
        IF h \in DOMAIN hs THEN hs[h] ELSE q.headers[h]]]

\* res.status(s).json(body): the response is sent
Respond(q, who, s, b, m) ==
  [q EXCEPT !.status = s, !.body = b, !.meta = m, !.by = who,
            !.sent = Append(@, who), !.pc = "responded"]

\* next() called by rateLimitMiddleware: on to the route's handler
CallNext(q) == [q EXCEPT !.nextCalls = @ + 1, !.pc = "handler"]

\* ---------------------------------------------------- authMiddleware, routing
\* authMiddleware resolved the key: req.user and req.apiKey are attached and
\* next() is called (auth.ts:96-119); index.ts:106-108 puts rateLimitMiddleware
\* behind it on /music only
Authenticated(r, u, route, max) ==
  /\ req[r].pc = "idle"
  /\ \A r2 \in Reqs : r2 < r => req[r2].pc # "idle"
  /\ issued < max
  /\ issued' = issued + 1
  /\ req' = [req EXCEPT ![r] =
       [IdleReq EXCEPT !.id = issued + 1, !.user = u, !.route = route,
                       !.authNext = 1,
                       !.pc = IF route = "music" THEN "rl_get" ELSE "handler"]]
  /\ UNCHANGED <<ops, admitted, now, store, recent, apiUsage, hits, bhits, unhandled,
                 restVars>>

\* ------------------------------------------------------------ authMiddleware
\* a request with X-API-Key header k arrives on a protected route
Receive(r, k, route, max) ==
  /\ req[r].pc = "idle"
  /\ \A r2 \in Reqs : r2 < r => req[r2].pc # "idle"
  /\ issued < max
  /\ issued' = issued + 1
  /\ req' = [req EXCEPT ![r] =
       [IdleReq EXCEPT !.id = issued + 1, !.key = k, !.route = route,
                       !.inactiveOnArrival =
                          (k.owner # NULL
                             /\ ~(acct.keyActive[k.owner] /\ acct.userActive[k.owner])),
                       !.pc = "auth"]]
  /\ UNCHANGED <<ops, admitted, now, store, recent, apiUsage, hits, bhits, unhandled, acct,
                 authCache,
                 pipeVars>>

\* apiKeyHeader.startsWith('mf_') (auth.ts:39)
StartsWithMf(k) == k.prefix = "mf_"

\* catch (error) { ...; res.status(500).json(AUTH_ERROR) } (auth.ts:120-130)
AuthCatch(q) == Respond(q, "auth", 500, [code |-> "AUTH_ERROR"], NoInfo)

\* req.apiKey, req.user are attached and next() is called (auth.ts:93-119); the
\* last_used_at update is fired with its own .catch and is not awaited
AuthAttach(q) ==
  [q EXCEPT !.user = q.keyData[1].user,
            !.authNext = @ + 1,
            !.pc = IF q.route = "music" THEN "rl_get" ELSE "handler"]

\* auth.ts:24-56: the header checks, then redis.getJson(`apikey:${keyHash}`)
AuthStart(r, ok) ==
  /\ req[r].pc = "auth"
  /\ LET q == req[r]
         cached == authCache[KeyHashOf(q.key)]
         q1 == [q EXCEPT !.cacheReads = @ + 1]
     IN req' = [req EXCEPT ![r] =
          IF ~q.key.present
          THEN Respond(q, "auth", 401, [code |-> "MISSING_API_KEY"], NoInfo)
          ELSE IF ~StartsWithMf(q.key)
          THEN Respond(q, "auth", 401, [code |-> "INVALID_API_KEY_FORMAT"], NoInfo)
          ELSE IF ~ok THEN AuthCatch([q1 EXCEPT !.cacheErr = TRUE])
          ELSE [q1 EXCEPT !.keyData = IF cached.exists THEN cached.data ELSE <<>>,
                          !.pc = "auth_cached"]]
  /\ UNCHANGED <<ops, admitted, now, store, recent, apiUsage, issued, hits, bhits, unhandled,
                 acct, authCache,
                 pipeVars>>

\* the rows of the SELECT ... WHERE ak.key_hash = $1 AND ak.is_active = true
\* AND u.is_active = true (auth.ts:60-72)
KeyRows(k) ==
  IF k.owner # NULL /\ acct.keyActive[k.owner] /\ acct.userActive[k.owner]
  THEN <<[user |-> k.owner]>> ELSE <<>>

\* which of the two is_active flags of the key's row pair is false
InactiveOf(k) ==
  IF k.owner = NULL THEN "none"
  ELSE IF ~acct.keyActive[k.owner] /\ ~acct.userActive[k.owner] THEN "both"
  ELSE IF ~acct.keyActive[k.owner] THEN "key"
  ELSE IF ~acct.userActive[k.owner] THEN "user"
  ELSE "none"

\* auth.ts:58-86: on a cache hit attach and go on, else query the database
AuthAfterCache(r, dbOk) ==
  /\ req[r].pc = "auth_cached"
  /\ LET q == req[r]
         result == KeyRows(q.key)
         q0 == [q EXCEPT !.dbReads = @ + 1]
         q1 == [q0 EXCEPT !.sawInactive = InactiveOf(q.key)]
     IN req' = [req EXCEPT ![r] =
          IF q.keyData # <<>> THEN AuthAttach(q)
          ELSE IF ~dbOk THEN AuthCatch(q0)
          ELSE IF Len(result) = 0
          THEN Respond(q1, "auth", 401, [code |-> "INVALID_API_KEY"], NoInfo)
          ELSE [q1 EXCEPT !.keyData = result, !.pc = "auth_found"]]
  /\ UNCHANGED <<ops, admitted, now, store, recent, apiUsage, issued, hits, bhits, unhandled,
                 acct, authCache,
                 pipeVars>>

\* auth.ts:88-89: await redis.setJson(cacheKey, apiKeyData, 300)
AuthAfterDb(r, ok) ==
  /\ req[r].pc = "auth_found"
  /\ LET q == req[r]
     IN IF ~ok
        THEN /\ req' = [req EXCEPT ![r] = AuthCatch([q EXCEPT !.cacheErr = TRUE])]
             /\ authCache' = authCache
        ELSE /\ req' = [req EXCEPT ![r].pc = "auth_attach"]
             /\ authCache' = [authCache EXCEPT ![KeyHashOf(q.key)] =
                  [exists |-> TRUE, data |-> q.keyData,
                   exp |-> now + AuthCacheSeconds * 1000]]
  /\ UNCHANGED <<ops, admitted, now, store, recent, apiUsage, issued, hits, bhits, unhandled,
                 acct,
                 pipeVars>>

\* auth.ts:93-119, resumed after await redis.setJson
AuthAfterCacheSet(r) ==
  /\ req[r].pc = "auth_attach"
  /\ req' = [req EXCEPT ![r] = AuthAttach(req[r])]
  /\ UNCHANGED <<ops, admitted, now, store, recent, apiUsage, issued, hits, bhits, unhandled,
                 acct, authCache,
                 pipeVars>>

\* users.is_active or api_keys.is_active of user u is set to false
\* (database/schema.sql:13, 23); no route of the API does it
Deactivate(u, column) ==
  /\ acct[column][u]
  /\ acct' = [acct EXCEPT ![column][u] = FALSE]
  /\ UNCHANGED <<ops, admitted, now, store, recent, apiUsage, req, issued, hits, bhits,
                 unhandled, authCache,
                 pipeVars>>

\* ------------------------------------------------------ rateLimitMiddleware
\* one counter per window for all subjects
KeyOf_shared(q) == <<"u1", q.windowStart>>

KeyOf(q) == <<q.user, q.windowStart>>

\* currentCount ? parseInt(currentCount, 10) : 0 (rateLimit.ts:44)
RequestCountOf(currentCount) == IF currentCount = <<>> THEN 0 ELSE currentCount[1]

\* rateLimitInfo (rateLimit.ts:47-52)
RateLimitInfoOf(limits, windowStart, requestCount) ==
  [limit |-> limits.requests,
   remaining |-> Max(0, limits.requests - requestCount - 1),
   resetTime |-> windowStart + limits.windowMs]

LimitExceeded_gt(requestCount, limits) == requestCount > limits.requests

\* if (requestCount >= limits.requests) (rateLimit.ts:55)
LimitExceeded(requestCount, limits) == requestCount >= limits.requests

\* the 429 body (rateLimit.ts:66-83); resetTime.toISOString() is kept as the
\* millisecond value it prints
DenialBody(limits, info) ==
  [code |-> "RATE_LIMIT_EXCEEDED",
   details |-> [limit |-> limits.requests,
                resetTime |-> info.resetTime,
                upgradeUrl |-> "https://musicforge.io/pricing"]]

\* res.set({...}) of the admitted path (rateLimit.ts:104-109)
RateLimitHeaders(limits, info) ==
  [h \in {"X-RateLimit-Limit", "X-RateLimit-Remaining", "X-RateLimit-Reset",
          "X-RateLimit-Reset-Time"} |->
     CASE h = "X-RateLimit-Limit" -> limits.requests
       [] h = "X-RateLimit-Remaining" -> info.remaining
       [] h = "X-RateLimit-Reset" -> Ceil(info.resetTime, 1000)
       [] OTHER -> info.resetTime]

\* a Redis call of the rate-limit check threw or rejected
Throw(q) == [q EXCEPT !.storeErr = TRUE]

RateLimitCatch_500(q) ==
  Respond(q, "rateLimit", 500, [code |-> "RATE_LIMIT_ERROR"], NoInfo)

\* the catch answers 500 and calls next() as well
RateLimitCatch_both(q) ==
  CallNext(Respond([q EXCEPT !.rl = "failopen"], "rateLimit", 500,
                   [code |-> "RATE_LIMIT_ERROR"], NoInfo))

\* catch (error) { logger.error(...); next(); } (rateLimit.ts:116-120)
RateLimitCatch(q) == CallNext([q EXCEPT !.rl = "failopen"])

\* rateLimit.ts:95-114: register the usage logger, set the headers, next()
Admit(q) ==
  LET limits == LimitsFor(PlanOf(q.user))
  IN CallNext(SetHeaders([q EXCEPT !.listener = TRUE, !.rl = "admitted"],
                         RateLimitHeaders(limits, q.rateLimitInfo)))

\* rateLimit.ts:21-43: the window key of this request, then redis.get(key)
RLGet(r, ok) ==
  /\ req[r].pc = "rl_get"
  /\ LET q == req[r]
         limits == LimitsFor(PlanOf(q.user))
         windowStart == WindowStartOf(now, limits.windowMs)
         k == <<q.user, windowStart>>
         b == WindowStartOf(now, BurstLimitsFor(PlanOf(q.user)).burstWindowMs)
         q1 == [q EXCEPT !.windowStart = windowStart,
                         !.ordS = hits[k] + 1, !.ordB = bhits[q.user][b] + 1]
     IN /\ hits' = [hits EXCEPT ![k] = @ + 1]
        /\ bhits' = [bhits EXCEPT ![q.user][b] = @ + 1]
        /\ req' = [req EXCEPT ![r] =
             IF q.user = NULL
             THEN Respond(q, "rateLimit", 401, [code |-> "AUTHENTICATION_REQUIRED"], NoInfo)
             ELSE IF ~ok THEN RateLimitCatch(Throw(q1))
             ELSE [q1 EXCEPT !.requestCount = RequestCountOf(RedisGet(k)),
                             !.pc = "rl_check"]]
  /\ UNCHANGED <<ops, admitted, now, store, recent, apiUsage, issued, unhandled,
                 restVars>>

\* rateLimit.ts:44-88: deny with 429, or redis.incr(key)
RLCheck(r, ok) ==
  /\ req[r].pc = "rl_check"
  /\ LET q == req[r]
         limits == LimitsFor(PlanOf(q.user))
         info == RateLimitInfoOf(limits, q.windowStart, q.requestCount)
         q1 == [q EXCEPT !.rateLimitInfo = info]
     IN IF LimitExceeded(q.requestCount, limits)
        THEN /\ req' = [req EXCEPT ![r] =
                  Respond([q1 EXCEPT !.rl = "denied"], "rateLimit", 429,
                          DenialBody(limits, info), info)]
             /\ store' = store
        ELSE IF ~ok
        THEN /\ req' = [req EXCEPT ![r] = RateLimitCatch(Throw(q1))]
             /\ store' = store
        ELSE /\ req' = [req EXCEPT ![r] = [q1 EXCEPT !.pc = "rl_incremented"]]
             /\ store' = RedisIncr(KeyOf(q))
  /\ UNCHANGED <<ops, admitted, now, recent, apiUsage, issued, hits, bhits, unhandled,
                 restVars>>

\* the request in slot r has passed the check and is handed on with its
\* rate-limit headers (rateLimit.ts:103-114): one more for its window
CountAdmitted(r) ==
  admitted' =
    IF req'[r].rl = "admitted" /\ req[r].rl # "admitted"
    THEN [admitted EXCEPT ![KeyOf(req[r])] = @ + 1]
    ELSE admitted

\* rateLimit.ts:90-93 (and, when no expire is due, 95-114)
RLAfterIncr(r, ok) ==
  /\ req[r].pc = "rl_incremented"
  /\ LET q == req[r]
         limits == LimitsFor(PlanOf(q.user))
     IN IF q.requestCount = 0
        THEN IF ~ok
             THEN /\ req' = [req EXCEPT ![r] = RateLimitCatch(Throw(q))]
                  /\ store' = store
             ELSE /\ req' = [req EXCEPT ![r].pc = "rl_expired"]
                  /\ store' = RedisExpire(KeyOf(q), Ceil(limits.windowMs, 1000))
        ELSE /\ req' = [req EXCEPT ![r] = Admit(q)]
             /\ store' = store
  /\ CountAdmitted(r)
  /\ UNCHANGED <<ops, now, recent, apiUsage, issued, hits, bhits, unhandled,
                 restVars>>

\* rateLimit.ts:95-114, resumed after await redis.expire
RLAfterExpire(r) ==
  /\ req[r].pc = "rl_expired"
  /\ req' = [req EXCEPT ![r] = Admit(req[r])]
  /\ CountAdmitted(r)
  /\ UNCHANGED <<ops, now, store, recent, apiUsage, issued, hits, bhits,
                 unhandled,
                 restVars>>

\* ------------------------------------------- getRateLimitStatus, resetRateLimit
\* a rate-limit check of a request of user u is under way in some slot
Checking(u) ==
  \E r \in Reqs :
    req[r].user = u /\ req[r].pc \in {"rl_check", "rl_incremented", "rl_expired"}

\* the moment of a call for user u, as the fields of ops describe it
MomentOf(u) ==
  [NoOp EXCEPT !.user = u,
               !.n = ops.n + 1,
               !.window = WindowStartOf(now, LimitsFor(PlanOf(u)).windowMs),
               !.id = req[1].id,
               !.after = (req[1].rl = "admitted" /\ req[1].user = u),
               !.clear = ~Checking(u),
               !.hits = [w \in WindowStarts |-> hits[<<u, w>>]]]

StatusInfoOf_asHeader(limits, windowStart, requestCount) ==
  RateLimitInfoOf(limits, windowStart, requestCount)

\* the RateLimitInfo getRateLimitStatus returns (rateLimit.ts:183-187)
StatusInfoOf(limits, windowStart, requestCount) ==
  [limit |-> limits.requests,
   remaining |-> Max(0, limits.requests - requestCount),
   resetTime |-> windowStart + limits.windowMs]

\* getRateLimitStatus(userId, plan) (rateLimit.ts:175-188), called with the
\* plan of the user: one redis.get of the key of the current window
GetRateLimitStatus(u, ok) ==
  /\ ops.n < MaxOpCalls
  /\ ops.op # "reset_keys"
  /\ LET limits == LimitsFor(PlanOf(u))
         windowStart == WindowStartOf(now, limits.windowMs)
         requestCount == RequestCountOf(RedisGet(<<u, windowStart>>))
         m == MomentOf(u)
     IN ops' = IF ~ok THEN [m EXCEPT !.op = "status", !.threw = TRUE]
               ELSE [m EXCEPT !.op = "status",
                              !.info = StatusInfoOf(limits, windowStart, requestCount)]
  /\ UNCHANGED <<admitted, now, store, recent, apiUsage, req, issued, hits, bhits,
                 unhandled, restVars>>

PatternMatches_any(u, k) == TRUE

\* the key k matches the pattern `rate_limit:${userId}:*` (rateLimit.ts:194)
PatternMatches(u, k) == k[1] = u

\* client.keys(pattern): the keys that exist and match
RedisKeys(u) == {k \in Keys : store[k].val # 0 /\ PatternMatches(u, k)}

\* client.del(...keys): the keys are gone
RedisDel(keys) ==
  [k \in Keys |-> IF k \in keys THEN [val |-> 0, exp |-> NoTTL] ELSE store[k]]

\* resetRateLimit(userId) up to await redisClient.keys(pattern)
\* (rateLimit.ts:193-202); connected: redis.getClient() is not null
ResetKeys(u, connected) ==
  /\ ops.n < MaxOpCalls
  /\ ops.op # "reset_keys"
  /\ LET m == MomentOf(u)
     IN ops' = IF ~connected THEN [m EXCEPT !.op = "reset", !.threw = TRUE]
               ELSE [m EXCEPT !.op = "reset_keys", !.keys = RedisKeys(u)]
  /\ UNCHANGED <<admitted, now, store, recent, apiUsage, req, issued, hits, bhits,
                 unhandled, restVars>>

\* rateLimit.ts:203-206: await redisClient.del(...keys) if there are any
ResetDel ==
  /\ ops.op = "reset_keys"
  /\ store' = IF ops.keys # {} THEN RedisDel(ops.keys) ELSE store
  /\ ops' = [ops EXCEPT !.op = "reset",
                        !.clear = (/\ @ /\ ~Checking(ops.user)
                                   /\ \A w \in WindowStarts :
                                        hits[<<ops.user, w>>] = ops.hits[w]),
                        !.window = WindowStartOf(now, LimitsFor(PlanOf(ops.user)).windowMs),
                        !.hits = [w \in WindowStarts |-> hits[<<ops.user, w>>]]]
  /\ UNCHANGED <<admitted, now, recent, apiUsage, req, issued, hits, bhits,
                 unhandled, restVars>>

\* ------------------------------------------------------------ route handlers
\* the status codes the handlers of a route answer with: processMusic 200, 400,
\* 500 (musicController.ts); templates 200, 202; webhooks 200, 501
HandlerStatuses(route) ==
  CASE route = "music" -> {200, 400, 500}
    [] route = "templates" -> {200, 202}
    [] OTHER -> {200, 501}

\* the handler answers; meta.rateLimit is res.locals.rateLimitInfo
Handler(r, s) ==
  /\ req[r].pc = "handler"
  /\ s \in HandlerStatuses(req[r].route)
  /\ req' = [req EXCEPT ![r] =
       Respond(req[r], "handler", s, [code |-> "handler"],
               IF req[r].rl = "admitted" THEN req[r].rateLimitInfo ELSE NoInfo)]
  /\ UNCHANGED <<ops, admitted, now, store, recent, apiUsage, issued, hits, bhits,
                 unhandled,
                 restVars>>

\* the response has been written out: a registered 'finish' listener
\* (rateLimit.ts:96-101) starts logApiUsage, otherwise the request is over.
\* The listener is registered on req; it is taken to fire when the response
\* is finished, which is the most the recorder can ever get to run.
Finish(r) ==
  /\ req[r].pc = "responded"
  /\ req' = [req EXCEPT ![r].pc = IF req[r].listener THEN "log" ELSE "done"]
  /\ UNCHANGED <<ops, admitted, now, store, recent, apiUsage, issued, hits, bhits,
                 unhandled,
                 restVars>>

\* --------------------------------------------------------------- logApiUsage
\* the usage row (rateLimit.ts:130-138); reqId only names the request it is of
UsageOf(q) ==
  [reqId |-> q.id, user_id |-> q.user, endpoint |-> q.route,
   status_code |-> q.status]

OnInsertRejected_nocatch == "unhandled"

\* .catch(error => logger.error(...)) on the insert (rateLimit.ts:153)
OnInsertRejected == "logged"

KeepLast_tail(list) ==
  IF Len(list) > RecentCap THEN SubSeq(list, 2, Len(list)) ELSE list

\* splice(100) keeps the first entries (rateLimit.ts:160-163)
KeepLast(list) ==
  IF Len(list) > RecentCap THEN SubSeq(list, 1, RecentCap) ELSE list

\* rateLimit.ts:127-157: return without a user; else build the row, fire the
\* insert, read the recent list
LogInsert(r, dbOk, ok) ==
  /\ req[r].pc = "log"
  /\ LET q == req[r]
         usage == UsageOf(q)
         cached == recent[q.user]
     IN IF q.user = NULL
        THEN /\ req' = [req EXCEPT ![r].pc = "done"]
             /\ UNCHANGED <<apiUsage, unhandled>>
        ELSE /\ apiUsage' = IF dbOk THEN Append(apiUsage, usage) ELSE apiUsage
             /\ unhandled' =
                  (unhandled \/ (~dbOk /\ OnInsertRejected = "unhandled"))
             /\ req' = [req EXCEPT ![r] =
                  IF ~ok THEN [q EXCEPT !.usage = usage, !.pc = "done"]
                  ELSE [q EXCEPT !.usage = usage, !.pc = "log_write",
                                 !.recentUsage =
                                   IF cached.exists THEN cached.list ELSE <<>>]]
  /\ UNCHANGED <<ops, admitted, now, store, recent, issued, hits, bhits,
                 restVars>>

\* rateLimit.ts:158-165: unshift, cap, redis.setJson(usageKey, list, 3600)
LogWrite(r, ok) ==
  /\ req[r].pc = "log_write"
  /\ LET q == req[r]
         list == KeepLast(<<q.usage>> \o q.recentUsage)
     IN /\ recent' = IF ~ok THEN recent
                     ELSE [recent EXCEPT ![q.user] =
                             [exists |-> TRUE, list |-> list,
                              exp |-> now + UsageCacheSeconds * 1000]]
        /\ req' = [req EXCEPT ![r].pc = "done"]
  /\ UNCHANGED <<ops, admitted, now, store, apiUsage, issued, hits, bhits, unhandled,
                 restVars>>

\* the slot is free for the next request
Reset(r) ==
  /\ req[r].pc = "done"
  /\ req' = [req EXCEPT ![r] = IdleReq]
  /\ UNCHANGED <<ops, admitted, now, store, recent, apiUsage, issued, hits, bhits,
                 unhandled,
                 restVars>>

\* -------------------------------------------------------------- processMusic
Min(a, b) == IF a <= b THEN a ELSE b

Slice_all(arr, n) == arr

\* arr.slice(0, n)
Slice(arr, n) == SubSeq(arr, 1, Min(n, Len(arr)))

\* the catch of processMusic (musicController.ts, part_003:192-209)
ProcessingError(q) ==
  Respond(q, "handler", 500, [code |-> "PROCESSING_ERROR"],
          IF q.rl = "admitted" THEN q.rateLimitInfo ELSE NoInfo)

\* part_003:26-51: read the body, answer 400 without a request string, else
\* call llmService.processRequest(userQuery)
PipeStart(r, body) ==
  /\ req[r].pc = "handler"
  /\ req[r].route = "music"
  /\ IF body.request = NULL
     THEN /\ req' = [req EXCEPT ![r] =
               Respond(req[r], "handler", 400, [code |-> "INVALID_REQUEST"], NoInfo)]
          /\ run' = [run EXCEPT ![r] = [NoRun EXCEPT !.body = body]]
     ELSE /\ req' = [req EXCEPT ![r].pc = "p_llm"]
          /\ run' = [run EXCEPT ![r] = [NoRun EXCEPT !.body = body]]
  /\ UNCHANGED <<ops, admitted, now, store, recent, apiUsage, issued, hits, bhits, unhandled,
                 acct, authCache, tracksTable, musicRequests, scoring>>

\* Math.ceil(maxTracks / processedQuery.searchTerms.length) (part_003:62)
PerTerm(maxTracks, query) == Ceil(maxTracks, Len(query.searchTerms))

\* processingSteps.push({ step, status: 'completed', ... }) (part_003:52-57,
\* 73-82, 154-159): the status is the literal 'completed'
StepStatus(failed) == "completed"

ResultOrder_completion(p) == p.completed

\* Promise.all resolves to the results in the order of the promises, that is
\* of the terms (part_003:65)
ResultOrder(p) == [i \in 1..Len(p.searchResults) |-> i]

\* searchResults.flat() (part_003:66), the results taken in the given order
RECURSIVE Flat(_, _)
Flat(results, order) ==
  IF order = <<>> THEN <<>>
  ELSE results[Head(order)].items \o Flat(results, Tail(order))

\* the list with its repeated ids kept
FirstOccurrences_all(arr) == arr

\* arr.filter((result, index, arr) => arr.findIndex(r => r.id === result.id)
\* === index) (part_003:69-70)
FirstOccurrences(arr) ==
  LET keep[i \in 0..Len(arr)] ==
        IF i = 0 THEN <<>>
        ELSE IF \E j \in 1..(i - 1) : arr[j].id = arr[i].id THEN keep[i - 1]
        ELSE Append(keep[i - 1], arr[i])
  IN keep[Len(arr)]

Merge_noStep(p) ==
  LET allResults == Flat(p.searchResults, ResultOrder(p))
  IN [p EXCEPT !.uniqueResults =
                  Slice(FirstOccurrences(allResults), p.body.maxTracks)]

\* part_003:66-82 (and 154-159 when there is no candidate to process)
Merge(p) ==
  LET allResults == Flat(p.searchResults, ResultOrder(p))
      uniqueResults == Slice(FirstOccurrences(allResults), p.body.maxTracks)
  IN [p EXCEPT !.uniqueResults = uniqueResults,
               !.processingSteps =
                  Append(@, [step |-> "youtube_search",
                             status |-> StepStatus(p.searchFailed)])]

\* part_003:51-63: processRequest has settled; log the step and start one
\* searchMusic per term of searchTerms.slice(0, 3), in term order.  Without
\* a term Promise.all([]) resolves at once.
Understand(r, out) ==
  /\ req[r].pc = "p_llm"
  /\ LET p == run[r]
         query == IF out.kind = "ok" THEN out.query
                  ELSE FallbackQuery(p.body.request)
         terms == Slice(query.searchTerms, SearchFanout)
         p1 == [p EXCEPT !.llm = out.kind,
                         !.processedQuery = query,
                         !.processingSteps =
                            Append(@, [step |-> "llm_processing",
                                       status |-> StepStatus(out.kind = "fail")]),
                         !.searched = terms,
                         !.searchResults =
                            [i \in 1..Len(terms) |->
                               [done |-> FALSE, items |-> <<>>]]]
     IN IF out.kind = "throw"
        THEN /\ req' = [req EXCEPT ![r] = ProcessingError(req[r])]
             /\ run' = [run EXCEPT ![r].llm = "throw"]
        ELSE IF terms = <<>>
        THEN /\ req' = [req EXCEPT ![r].pc = "p_log"]
             /\ run' = [run EXCEPT ![r] = Merge(p1)]
        ELSE /\ req' = [req EXCEPT ![r].pc = "p_search"]
             /\ run' = [run EXCEPT ![r] = p1]
  /\ UNCHANGED <<ops, admitted, now, store, recent, apiUsage, issued, hits, bhits, unhandled,
                 acct, authCache, tracksTable, musicRequests, scoring>>

\* one of the searchMusic calls settles: with at most maxResults items, or
\* rejected (youtube.ts, part_007:37 and 93-96).  Promise.all rejects with the
\* first rejection, which lands in the catch of processMusic; it resolves
\* once every search is in.
SearchSettle(r, i, ok, ids) ==
  /\ req[r].pc = "p_search"
  /\ i \in DOMAIN run[r].searchResults
  /\ ~run[r].searchResults[i].done
  /\ Len(ids) <= PerTerm(run[r].body.maxTracks, run[r].processedQuery)
  /\ LET p == run[r]
         p1 == [p EXCEPT !.searchResults[i] =
                           [done |-> TRUE,
                            items |-> SearchItems(p.searched[i], ids)],
                         !.completed = Append(@, i)]
         all == \A j \in DOMAIN p1.searchResults : p1.searchResults[j].done
         p2 == Merge(p1)
     IN IF ~ok
        THEN /\ req' = [req EXCEPT ![r] = ProcessingError(req[r])]
             /\ run' = [run EXCEPT ![r].searchFailed = TRUE]
        ELSE IF ~all
        THEN /\ req' = req
             /\ run' = [run EXCEPT ![r] = p1]
        ELSE /\ req' = [req EXCEPT ![r].pc =
                  IF p2.uniqueResults = <<>> THEN "p_log" ELSE "p_track"]
             /\ run' = [run EXCEPT ![r] = p2]
  /\ UNCHANGED <<ops, admitted, now, store, recent, apiUsage, issued, hits, bhits, unhandled,
                 acct, authCache, tracksTable, musicRequests, scoring>>

\* the outcomes of the collaborator calls made for one candidate:
\* getVideoMetadata answers or returns null (part_007:238-270), extractMetadata
\* answers with fields, with {} or rejects (part_008:442-493, the cache read
\* at 451 is outside its try), getDownloadUrl, analyzeFromUrl and the upsert
\* of saveTrackToDatabase answer or reject; an analysis that answers has
\* found values or, with none of its three methods succeeding, is an empty
\* result (part_008:35-63)
EnrichOutcomes ==
  [md : {"ok", "null"}, ex : {"full", "empty", "throw"},
   dl : BOOLEAN, an : BOOLEAN, found : BOOLEAN, save : BOOLEAN]

\* the calls that failed for a candidate, as far as the loop body got
FailuresOf(e, analyzeAudio) ==
  (IF e.md = "null" THEN {"metadata"} ELSE {})
    \cup (IF e.ex = "throw" THEN {"extract"} ELSE {})
    \cup (IF analyzeAudio /\ e.ex # "throw" /\ ~e.dl THEN {"download"} ELSE {})
    \cup (IF analyzeAudio /\ e.ex # "throw" /\ e.dl /\ ~e.an
          THEN {"analysis"} ELSE {})
    \cup (IF e.ex # "throw" /\ ~e.save THEN {"save"} ELSE {})

\* energyLevel is a number from 0 on (in hundredths); this stands for undefined
NoEnergy == -1

\* llmService.extractMetadata(title, description): genre, mood, bpm and key
\* as far as the language model names them (part_008:442-493); bpm 0 and ""
\* stand for undefined
LlmMetadataOf(e) ==
  IF e.ex = "full"
  THEN [genre |-> "house", mood |-> "dark", bpm |-> 100, key |-> "Am"]
  ELSE [genre |-> "", mood |-> "", bpm |-> 0, key |-> ""]

\* the AudioAnalysisResult of analyzeFromUrl (part_008:35-63)
AnalysisOf(e) ==
  IF e.found
  THEN [bpm |-> 125, musicalKey |-> "C", camelotKey |-> "8B",
        energyLevel |-> 70, genre |-> "techno", mood |-> "happy"]
  ELSE [bpm |-> 0, musicalKey |-> "", camelotKey |-> "",
        energyLevel |-> NoEnergy, genre |-> "", mood |-> ""]

\* part_003:90-112: the track built from the search result, the metadata and
\* the language-model metadata
BasicTrack(yt, e) ==
  LET llmMetadata == LlmMetadataOf(e)
  IN [youtubeId |-> yt.id,
      title |-> IF e.md = "ok" THEN <<"meta", yt.id>> ELSE yt.title,
      artist |-> IF e.md = "ok" THEN <<"artist", yt.id>> ELSE <<>>,
      audioUrl |-> FALSE,
      analysisStatus |-> "pending",
      genre |-> llmMetadata.genre,
      mood |-> llmMetadata.mood,
      bpm |-> llmMetadata.bpm,
      musicalKey |-> llmMetadata.key,
      camelotKey |-> "",
      energyLevel |-> NoEnergy]

ApplyAnalysis_keepGuess(track, analysis) ==
  [track EXCEPT !.bpm = IF @ = 0 THEN analysis.bpm ELSE @,
                !.musicalKey = IF @ = "" THEN analysis.musicalKey ELSE @,
                !.camelotKey = IF analysis.camelotKey # "" THEN analysis.camelotKey ELSE @,
                !.energyLevel = IF analysis.energyLevel # NoEnergy
                                THEN analysis.energyLevel ELSE @,
                !.genre = IF analysis.genre # "" /\ @ = "" THEN analysis.genre ELSE @,
                !.mood = IF analysis.mood # "" /\ @ = "" THEN analysis.mood ELSE @,
                !.analysisStatus = "completed"]

\* part_003:122-135: the analysis results applied to the track (loudness and
\* waveformPeaks are applied as energyLevel is)
ApplyAnalysis(track, analysis) ==
  [track EXCEPT !.bpm = IF analysis.bpm # 0 THEN analysis.bpm ELSE @,
                !.musicalKey = IF analysis.musicalKey # "" THEN analysis.musicalKey ELSE @,
                !.camelotKey = IF analysis.camelotKey # "" THEN analysis.camelotKey ELSE @,
                !.energyLevel = IF analysis.energyLevel # NoEnergy
                                THEN analysis.energyLevel ELSE @,
                !.genre = IF analysis.genre # "" /\ @ = "" THEN analysis.genre ELSE @,
                !.mood = IF analysis.mood # "" /\ @ = "" THEN analysis.mood ELSE @,
                !.analysisStatus = "completed"]

\* the analysis results applied whatever the two calls did
Analysed_always(track, e) ==
  ApplyAnalysis([track EXCEPT !.audioUrl = TRUE], AnalysisOf(e))

\* part_003:115-141: download URL, analysis, the analysis results applied
Analysed(track, e) ==
  IF ~e.dl THEN [track EXCEPT !.analysisStatus = "failed"]
  ELSE IF ~e.an THEN [track EXCEPT !.audioUrl = TRUE, !.analysisStatus = "failed"]
  ELSE ApplyAnalysis([track EXCEPT !.audioUrl = TRUE], AnalysisOf(e))

\* the positions of the rows of the table with this youtube_id
RowsWith(table, id) == {i \in DOMAIN table : table[i].youtube_id = id}

\* the row INSERT INTO tracks (...) VALUES (...) proposes (part_003:342-363);
\* an undefined parameter is stored as NULL, for which 0, "" and NoEnergy
\* stand (loudness and waveform_peaks are handled as energy_level is)
RowOf(track) ==
  [youtube_id |-> track.youtubeId, title |-> track.title, artist |-> track.artist,
   bpm |-> track.bpm, musical_key |-> track.musicalKey,
   camelot_key |-> track.camelotKey, energy_level |-> track.energyLevel,
   analysis_status |-> track.analysisStatus]

OnConflict_overwrite(old, excluded) == excluded

\* ON CONFLICT (youtube_id) DO UPDATE SET title = EXCLUDED.title, artist =
\* EXCLUDED.artist, bpm = COALESCE(EXCLUDED.bpm, tracks.bpm), musical_key =
\* COALESCE(EXCLUDED.musical_key, tracks.musical_key), analysis_status =
\* EXCLUDED.analysis_status (part_003:349-355); the columns that are not named
\* keep the stored value
OnConflict(old, excluded) ==
  [old EXCEPT !.title = excluded.title,
              !.artist = excluded.artist,
              !.bpm = IF excluded.bpm # 0 THEN excluded.bpm ELSE @,
              !.musical_key = IF excluded.musical_key # "" THEN excluded.musical_key ELSE @,
              !.analysis_status = excluded.analysis_status]

\* the statement of saveTrackToDatabase (part_003:341-363) on the table whose
\* column youtube_id is UNIQUE (schema.sql:45)
Upsert(table, track) ==
  LET hit == RowsWith(table, track.youtubeId)
  IN IF hit = {} THEN Append(table, RowOf(track))
     ELSE [i \in DOMAIN table |->
             IF i \in hit THEN OnConflict(table[i], RowOf(track)) ELSE table[i]]

\* what the collaborators handed over for a candidate: the language-model
\* metadata, and the analysis result if the analysis was run and succeeded
InputsOf(e, analyzeAudio) ==
  [llmMetadata |-> LlmMetadataOf(e),
   analysis |-> IF analyzeAudio /\ e.ex # "throw" /\ e.dl /\ e.an
                THEN <<AnalysisOf(e)>> ELSE <<>>]

\* part_003:87-152, one pass of the loop: the candidate becomes a track, is
\* pushed and saved; an exception before the push drops it (the catch at 148)
TrackStep(r, e) ==
  /\ req[r].pc = "p_track"
  /\ LET p == run[r]
         yt == p.uniqueResults[p.next]
         basic == BasicTrack(yt, e)
         track == IF p.body.analyzeAudio THEN Analysed(basic, e) ELSE basic
         dropped == e.ex = "throw"
         p1 == [p EXCEPT !.next = @ + 1,
                         !.failures = Append(@, FailuresOf(e, p.body.analyzeAudio)),
                         !.inputs = Append(@, InputsOf(e, p.body.analyzeAudio)),
                         !.tracks = IF dropped THEN @ ELSE Append(@, track)]
     IN /\ run' = [run EXCEPT ![r] = p1]
        /\ tracksTable' = IF dropped \/ ~e.save THEN tracksTable
                          ELSE Upsert(tracksTable, track)
        /\ req' = [req EXCEPT ![r].pc =
             IF p1.next > Len(p.uniqueResults) THEN "p_log" ELSE "p_track"]
  /\ UNCHANGED <<ops, admitted, now, store, recent, apiUsage, issued, hits, bhits, unhandled,
                 acct, authCache, musicRequests, scoring>>

Clamp_none(score) == score

\* Math.min(score, 1.0) (part_003:434), in thousandths
Clamp(score) == Min(score, 1000)

\* the filter callback of part_003:423-428: min || 0, max || 200
InBpmRange(t, bpm) ==
  LET min == IF bpm.min = 0 THEN 0 ELSE bpm.min
      max == IF bpm.max = 0 THEN DefaultBpmMax ELSE bpm.max
  IN t.bpm # 0 /\ t.bpm >= min /\ t.bpm <= max

calculateConfidenceScore_allTracks(processedQuery, tracks) ==
  LET n == Len(tracks)
      a == Len(SelectSeq(tracks, LAMBDA t : t.analysisStatus = "completed"))
      f == processedQuery.filters.bpm
      matchingBPM ==
        IF f = <<>> THEN <<>>
        ELSE SelectSeq(tracks, LAMBDA t : InBpmRange(t, f[1]))
      score == 500 + Min(n * 100, 300)
                 + (IF a > 0 THEN (a * 200) \div n ELSE 0)
                 + (IF f # <<>> /\ Len(matchingBPM) > 0
                    THEN (Len(matchingBPM) * 200) \div n ELSE 0)
  IN IF n = 0 THEN 0 ELSE Clamp(score)

\* calculateConfidenceScore (part_003:407-435), in thousandths
calculateConfidenceScore(processedQuery, tracks) ==
  LET n == Len(tracks)
      analyzedTracks == SelectSeq(tracks, LAMBDA t : t.analysisStatus = "completed")
      a == Len(analyzedTracks)
      f == processedQuery.filters.bpm
      matchingBPM ==
        IF f = <<>> THEN <<>>
        ELSE SelectSeq(analyzedTracks, LAMBDA t : InBpmRange(t, f[1]))
      score == 500 + Min(n * 100, 300)
                 + (IF a > 0 THEN (a * 200) \div n ELSE 0)
                 + (IF f # <<>> /\ a > 0 /\ Len(matchingBPM) > 0
                    THEN (Len(matchingBPM) * 200) \div a ELSE 0)
  IN IF n = 0 THEN 0 ELSE Clamp(score)

\* one call of the scorer on the arguments at hand
Score ==
  /\ ~scoring.called
  /\ scoring' = [scoring EXCEPT
                   !.called = TRUE,
                   !.confidence =
                      calculateConfidenceScore(scoring.processedQuery, scoring.tracks)]
  /\ UNCHANGED <<ops, admitted, now, store, recent, apiUsage, req, issued, hits, bhits,
                 unhandled, acct, authCache, run, tracksTable, musicRequests>>

OnLogRejected_thrown == "thrown"

\* the catch of logMusicRequest only logs (part_003:399-401)
OnLogRejected == "logged"

\* part_003:154-190: log the last step, write the music_requests row
\* (logMusicRequest swallows its error), score, answer 200
PipeFinish(r, dbOk) ==
  /\ req[r].pc = "p_log"
  /\ LET p == run[r]
         steps == Append(p.processingSteps,
                         [step |-> "track_processing", status |-> StepStatus(FALSE)])
         result == [code |-> "ok", tracks |-> p.tracks,
                    totalFound |-> Len(p.tracks), processingSteps |-> steps,
                    confidence |-> calculateConfidenceScore(p.processedQuery, p.tracks)]
     IN /\ run' = [run EXCEPT ![r].processingSteps = steps,
                              ![r].logFailed = ~dbOk]
        /\ musicRequests' =
             IF dbOk THEN Append(musicRequests,
                                 [reqId |-> req[r].id, tracks |-> Len(p.tracks)])
             ELSE musicRequests
        /\ req' = [req EXCEPT ![r] =
             IF ~dbOk /\ OnLogRejected = "thrown" THEN ProcessingError(req[r])
             ELSE Respond(req[r], "handler", 200, result,
                          IF req[r].rl = "admitted" THEN req[r].rateLimitInfo
                          ELSE NoInfo)]
  /\ UNCHANGED <<ops, admitted, now, store, recent, apiUsage, issued, hits, bhits, unhandled,
                 acct, authCache, tracksTable, scoring>>

\* ------------------------------------------------------------ specifications
\* the steps of the request in slot r; F: the outcomes a store call may have
\* (TRUE: it answers, FALSE: it throws or rejects, utils/redis.ts:50-52,
\* 75-77, 83-85 and utils/database.ts:43-45, 59-62)
Step(r, U, R, F, max) ==
  \/ \E u \in U, route \in R : Authenticated(r, u, route, max)
  \/ \E ok \in F : RLGet(r, ok)
  \/ \E ok \in F : RLCheck(r, ok)
  \/ \E ok \in F : RLAfterIncr(r, ok)
  \/ RLAfterExpire(r)
  \/ \E s \in {200, 202, 400, 500, 501} : Handler(r, s)
  \/ Finish(r)
  \/ \E dbOk \in F, ok \in F : LogInsert(r, dbOk, ok)
  \/ \E ok \in F : LogWrite(r, ok)
  \/ Reset(r)

\* the server under overlapping /music requests of one subject
Next ==
  \/ Tick
  \/ \E r \in Reqs : Step(r, {"u1"}, {"music"}, {TRUE}, MaxConcReqs)

Spec == Init /\ [][Next]_vars

\* one subject, one request at a time on any protected route, every store call
\* answers
NextSeq ==
  \/ Tick
  \/ Step(1, {"u1"}, Routes, {TRUE}, MaxReqs)

SpecSeq == Init /\ [][NextSeq]_vars

\* one request at a time on /music; any Redis or database call may fail
NextFail ==
  \/ Tick
  \/ Step(1, {"u1"}, {"music"}, BOOLEAN, MaxFailReqs)

SpecFail == Init /\ [][NextFail]_vars

\* requests of one subject on /music inside one window, two at a time, every
\* store call answers and processMusic answers 200
RaceStep(r) ==
  \/ Authenticated(r, "u1", "music", MaxRaceReqs)
  \/ RLGet(r, TRUE)
  \/ RLCheck(r, TRUE)
  \/ RLAfterIncr(r, TRUE)
  \/ RLAfterExpire(r)
  \/ Handler(r, 200)
  \/ Finish(r)
  \/ LogInsert(r, TRUE, TRUE)
  \/ LogWrite(r, TRUE)
  \/ Reset(r)

NextRace == \E r \in Reqs : RaceStep(r)

SpecRace == Init /\ [][NextRace]_vars

\* the steps of authMiddleware for the request in slot r
AuthStep(r, K, R, F, max) ==
  \/ \E k \in K, route \in R : Receive(r, k, route, max)
  \/ \E ok \in F : AuthStart(r, ok)
  \/ \E dbOk \in F : AuthAfterCache(r, dbOk)
  \/ \E ok \in F : AuthAfterDb(r, ok)
  \/ AuthAfterCacheSet(r)

\* the authentication gate in front of /templates: one request at a time with
\* any X-API-Key header, any cache or database call may fail, and users and
\* keys are deactivated at any moment
NextAuth ==
  \/ Tick
  \/ AuthStep(1, RawKeys, {"templates"}, BOOLEAN, MaxAuthReqs)
  \/ \E u \in Users, column \in {"userActive", "keyActive"} : Deactivate(u, column)
  \/ \E s \in {200, 202} : Handler(1, s)
  \/ Finish(1)
  \/ Reset(1)

SpecAuth == Init /\ [][NextAuth]_vars

\* the whole chain in front of /music (index.ts:106): one request at a time
\* with any X-API-Key header through authMiddleware and rateLimitMiddleware to
\* the handler; any cache, database or counter call may fail, and users and
\* keys are deactivated at any moment
NextGate ==
  \/ AuthStep(1, RawKeys, {"music"}, BOOLEAN, MaxGateReqs)
  \/ \E u \in Users, column \in {"userActive", "keyActive"} : Deactivate(u, column)
  \/ \E ok \in BOOLEAN : RLGet(1, ok)
  \/ \E ok \in BOOLEAN : RLCheck(1, ok)
  \/ \E ok \in BOOLEAN : RLAfterIncr(1, ok)
  \/ RLAfterExpire(1)
  \/ Handler(1, 200)
  \/ Finish(1)
  \/ LogInsert(1, TRUE, TRUE)
  \/ LogWrite(1, TRUE)
  \/ Reset(1)

SpecGate == Init /\ [][NextGate]_vars

\* /music requests of the users U, at most max of them and one at a time;
\* every store call answers and processMusic answers 200
PairStep(U, max) ==
  \/ \E u \in U : Authenticated(1, u, "music", max)
  \/ RLGet(1, TRUE)
  \/ RLCheck(1, TRUE)
  \/ RLAfterIncr(1, TRUE)
  \/ RLAfterExpire(1)
  \/ Handler(1, 200)
  \/ Finish(1)
  \/ LogInsert(1, TRUE, TRUE)
  \/ LogWrite(1, TRUE)
  \/ Reset(1)

\* two subjects on /music, one request at a time in any order of the two
NextPair ==
  \/ Tick
  \/ PairStep(Users, MaxPairReqs)

SpecPair == Init /\ [][NextPair]_vars

\* getRateLimitStatus called for user u1 at any moment between the steps of
\* the requests of u1
NextStatus ==
  \/ Tick
  \/ PairStep({"u1"}, MaxStatusReqs)
  \/ \E ok \in BOOLEAN : GetRateLimitStatus("u1", ok)

SpecStatus == Init /\ [][NextStatus]_vars

\* resetRateLimit called for user u1 at any moment between the steps of the
\* requests of both users, with the Redis client connected or not
NextReset ==
  \/ Tick
  \/ PairStep(Users, MaxResetReqs)
  \/ \E connected \in BOOLEAN : ResetKeys("u1", connected)
  \/ ResetDel

SpecReset == Init /\ [][NextReset]_vars

\* the way of a /music request of user u1 to processMusic and from its
\* response on: every store call of the middleware and the recorder answers
Around(r, max) ==
  \/ Authenticated(r, "u1", "music", max)
  \/ RLGet(r, TRUE)
  \/ RLCheck(r, TRUE)
  \/ RLAfterIncr(r, TRUE)
  \/ RLAfterExpire(r)
  \/ Finish(r)
  \/ LogInsert(r, TRUE, TRUE)
  \/ LogWrite(r, TRUE)
  \/ Reset(r)

\* the steps of processMusic for the request in slot r, with the bodies B,
\* the outcomes L of the understanding call, the ID lists H the searches may
\* return, the outcomes S of a search call and E of the calls for a candidate
PipeStep(r, B, L, H, S, E) ==
  \/ \E body \in B : PipeStart(r, body)
  \/ \E out \in L : Understand(r, out)
  \/ \E i \in 1..SearchFanout, ok \in S, ids \in H : SearchSettle(r, i, ok, ids)
  \/ \E e \in E : TrackStep(r, e)
  \/ \E dbOk \in BOOLEAN : PipeFinish(r, dbOk)

\* every call for a candidate succeeds
EnrichFine ==
  {e \in EnrichOutcomes :
     e.md = "ok" /\ e.ex = "full" /\ e.dl /\ e.an /\ e.found /\ e.save}

\* Understand and Search under any outcome of the understanding call and of
\* the searches; the candidates are then processed without a failure
NextSearch ==
  \/ Around(1, MaxPipeReqs)
  \/ PipeStep(1, Bodies, LLMOutcomes, HitLists, BOOLEAN, EnrichFine)

SpecSearch == Init /\ [][NextSearch]_vars

\* Enrich/Analyze under any outcome of the calls made for a candidate: the
\* understanding call answers one term, whose search finds both videos
NextEnrich ==
  \/ Around(1, MaxPipeReqs)
  \/ PipeStep(1, {b \in Bodies : b.request # NULL /\ b.maxTracks = MaxTracks},
              {[kind |-> "ok", query |-> ProcessedQueryOf(<<"a">>, NoFilters)]},
              {<<"X", "Y">>}, {TRUE}, EnrichOutcomes)

SpecEnrich == Init /\ [][NextEnrich]_vars

\* several runs of the pipeline, one after the other, that each find video X
\* and process it under any outcome of the calls made for it
NextUpsert ==
  \/ Around(1, MaxUpsertRuns)
  \/ PipeStep(1, {b \in Bodies : b.request # NULL /\ b.maxTracks = 1},
              {[kind |-> "ok", query |-> ProcessedQueryOf(<<"a">>, NoFilters)]},
              {<<"X">>}, {TRUE}, EnrichOutcomes)

SpecUpsert == Init /\ [][NextUpsert]_vars

\* the understanding call answers one term or fails over to the fallback, and
\* every search and every call for a candidate that settles succeeds
LiveBodies == {b \in Bodies : b.request # NULL}
LiveOutcomes ==
  {[kind |-> "ok", query |-> ProcessedQueryOf(<<"a">>, NoFilters)],
   [kind |-> "fail", query |-> NoQuery]}

NextLive ==
  \/ Around(1, MaxPipeReqs)
  \/ PipeStep(1, LiveBodies, LiveOutcomes, {<<"X">>, <<"X", "Y">>}, {TRUE}, EnrichFine)

\* the steps of a request that are bound to happen: the stores answer, the
\* event loop runs processMusic, and the OpenAI client, constructed with its
\* defaults (part_008:316-318), gives up on a request after its default
\* timeout, so processRequest settles.  search.list of googleapis
\* (part_007:60), videos.list (part_007:231-271), ytdl.getInfo (part_007:166)
\* and the ffmpeg runs of analyzeFromUrl (part_008:132-200) are called
\* without a timeout: nothing makes SearchSettle or TrackStep happen.
BoundToHappen(r) ==
  \/ RLGet(r, TRUE)
  \/ RLCheck(r, TRUE)
  \/ RLAfterIncr(r, TRUE)
  \/ RLAfterExpire(r)
  \/ \E body \in LiveBodies : PipeStart(r, body)
  \/ \E out \in LiveOutcomes : Understand(r, out)
  \/ \E dbOk \in BOOLEAN : PipeFinish(r, dbOk)

SpecLive == Init /\ [][NextLive]_vars /\ WF_vars(BoundToHappen(1))

\* the scorer called on any query and any list of at most MaxScoreTracks
\* tracks
InitScore ==
  /\ InitServer
  /\ scoring \in [processedQuery : ScoreQueries, tracks : ScoreTrackLists,
                   called : {FALSE}, confidence : {0}]

NextScore == Score

SpecScore == InitScore /\ [][NextScore]_vars

\* ----------------------------------------------------------------- properties
\* the rate limiter has decided on the request in slot r
Decided(q) == q.rl \in {"admitted", "denied"}
SustainedLimit(q) == LimitsFor(PlanOf(q.user)).requests
BurstLimit(q) == BurstLimitsFor(PlanOf(q.user)).burstRequests

\* C1: a request is admitted if and only if it is, counted with itself, within
\* both the sustained-window quota and the burst-window quota of its plan.
C1_AdmittedIffBothWindows ==
  \A r \in Reqs :
    Decided(req[r]) =>
      (req[r].rl = "admitted"
         <=> (req[r].ordS <= SustainedLimit(req[r])
              /\ req[r].ordB <= BurstLimit(req[r])))

C3_DeniedRequestCounted ==
  \A r \in Reqs :
    (req[r].rl = "denied" /\ req[r].pc = "responded") =>
      store[KeyOf(req[r])].val = req[r].requestCount + 1

\* C4: a request whose rate-limit check hit a failing counter-store call is
\* handed to the next handler exactly once and gets no response from the
\* rate limiter.
C4_FailOpen ==
  \A r \in Reqs :
    req[r].storeErr =>
      /\ req[r].nextCalls = 1
      /\ req[r].by # "rateLimit"
      /\ req[r].status \notin {429, 401}

\* a request whose counter-store call failed has been answered 200 by the
\* route's handler
C4_Witness ==
  \E r \in Reqs :
    req[r].storeErr /\ req[r].by = "handler" /\ req[r].status = 200

\* C5: a request within the sustained quota but over the burst quota is denied,
\* and the denial names the burst window.
C5_BurstDenialNamesBurst ==
  \A r \in Reqs :
    LET q == req[r]
    IN (Decided(q) /\ q.ordS <= SustainedLimit(q) /\ q.ordB > BurstLimit(q)) =>
         /\ q.rl = "denied"
         /\ "limitType" \in DOMAIN q.body.details
         /\ q.body.details.limitType = "burst"

\* C6: a denial is a 429 RATE_LIMIT_EXCEEDED whose body names the exceeded
\* window (limitType, the sustained one when both are exceeded) and the end of
\* that window as reset time.
C6_DenialBodyNamesWindow ==
  \A r \in Reqs :
    LET q == req[r]
    IN q.rl = "denied" =>
         /\ q.status = 429
         /\ q.body.code = "RATE_LIMIT_EXCEEDED"
         /\ q.body.details.resetTime = q.windowStart + WindowMs
         /\ "limitType" \in DOMAIN q.body.details
         /\ q.ordS > SustainedLimit(q) => q.body.details.limitType = "hourly"

\* C7: once the TTL of a counter key is armed, no later request of the window
\* re-arms or resets it while the key lives, under any interleaving of the
\* requests of one subject.
C7_TtlArmedOnce ==
  [][\A k \in Keys :
       (store[k].exp # NoTTL /\ store'[k].val > 0) =>
         store'[k].exp = store[k].exp]_vars

RequiredHeaders ==
  {"X-RateLimit-Limit", "X-RateLimit-Remaining", "X-RateLimit-Reset",
   "X-RateLimit-Burst-Limit", "X-RateLimit-Burst-Remaining"}

\* C8: every response on a protected route carries the rate-limit headers and
\* their burst equivalents.
C8_HeadersOnEveryResponse ==
  \A r \in Reqs :
    req[r].status # 0 => RequiredHeaders \subseteq DOMAIN req[r].headers

\* the api_usage rows of the request in slot r
RowsOf(q) == {i \in DOMAIN apiUsage : apiUsage[i].reqId = q.id}

\* C9: a completed request of an authenticated subject has exactly one
\* api_usage row, with its status code and endpoint.
C9_OneUsageRecordPerRequest ==
  \A r \in Reqs :
    req[r].pc = "done" =>
      /\ Cardinality(RowsOf(req[r])) = 1
      /\ \A i \in RowsOf(req[r]) :
           /\ apiUsage[i].status_code = req[r].status
           /\ apiUsage[i].endpoint = req[r].route

\* what the client has been sent
ResponseOf(q) == <<q.status, q.body, q.meta, q.headers>>

\* C10: no step of the usage recorder, failing or not, changes the response
\* already produced, and no rejection leaves the recorder unhandled.
C10_RecorderFailureIsolated ==
  /\ [][\A r \in Reqs :
          req[r].pc \in {"log", "log_write"} =>
            ResponseOf(req'[r]) = ResponseOf(req[r])]_vars
  /\ []~unhandled

\* a request answered 200 whose usage insert and whose recent-activity write
\* both failed: it has no api_usage row and is not in the recent list
C10_Witness ==
  \E r \in Reqs :
    /\ req[r].pc = "done"
    /\ req[r].listener
    /\ req[r].status = 200
    /\ RowsOf(req[r]) = {}
    /\ \A i \in DOMAIN recent[req[r].user].list :
         recent[req[r].user].list[i].reqId # req[r].id

\* the record operations of subject u so far, oldest first
RecordedOf(u) == SelectSeq(apiUsage, LAMBDA row : row.user_id = u)

\* list is a run of consecutive record operations of rows, newest first
IsNewestFirstRun(list, rows) ==
  \E k \in 0..(Len(rows) - Len(list)) :
    \A i \in 1..Len(list) : list[i] = rows[Len(rows) - k - i + 1]

\* a recorder of subject u is between its read and its write of the list
MidRecord(u) == \E r \in Reqs : req[r].pc = "log_write" /\ req[r].user = u

\* the step writes the recent-activity list of subject u
RecentWritten(u) == recent'[u] # recent[u] /\ recent'[u].exists

\* C11: after any sequence of record operations of a subject its
\* recent-activity list holds at most the cap, is ordered most-recent-first
\* with the latest record on top, has lost only its oldest entries, and every
\* write of the list re-arms its expiry.
C11_RecentListBounded ==
  /\ [](\A u \in Users :
          /\ Len(recent[u].list) <= RecentCap
          /\ IsNewestFirstRun(recent[u].list, RecordedOf(u))
          /\ (recent[u].exists /\ ~MidRecord(u)) =>
               recent[u].list[1] = RecordedOf(u)[Len(RecordedOf(u))])
  /\ [][\A u \in Users :
          RecentWritten(u) =>
            /\ recent'[u].exp = now + UsageCacheSeconds * 1000
            /\ recent[u].exists =>
                 /\ Len(recent'[u].list)
                      = IF Len(recent[u].list) < RecentCap
                        THEN Len(recent[u].list) + 1 ELSE RecentCap
                 /\ \A i \in 2..Len(recent'[u].list) :
                      recent'[u].list[i] = recent[u].list[i - 1]]_vars

\* the list of u1 is full, its latest record is on top and an older record
\* has been evicted from it
C11_Witness ==
  /\ recent["u1"].exists
  /\ Len(recent["u1"].list) = RecentCap
  /\ Len(RecordedOf("u1")) > RecentCap
  /\ recent["u1"].list[1] = RecordedOf("u1")[Len(RecordedOf("u1"))]

\* the header is present but is not 'mf_' followed by 64 characters
Malformed(k) == k.present /\ (k.prefix # "mf_" \/ k.len # KeyLength)

\* C12: a key without the prefix mf_ or not of the fixed length is answered
\* 401 INVALID_API_KEY_FORMAT, and neither the cache nor the database is
\* consulted for it.
C12_MalformedKeyRejectedEarly ==
  \A r \in Reqs :
    Malformed(req[r].key) =>
      /\ req[r].cacheReads = 0
      /\ req[r].dbReads = 0
      /\ req[r].status # 0 =>
           /\ req[r].status = 401
           /\ req[r].body.code = "INVALID_API_KEY_FORMAT"

\* C13: a request whose key is inactive and a request whose user is inactive
\* get the same answer, 401 with the account-inactive error code.
C13_InactiveSameKind ==
  \A r \in Reqs :
    (req[r].sawInactive # "none" /\ req[r].status # 0) =>
      /\ req[r].status = 401
      /\ req[r].body.code = "INACTIVE_ACCOUNT"

\* the key of the request is registered and it and its user are active
ValidActive(k) ==
  k.owner # NULL /\ acct.keyActive[k.owner] /\ acct.userActive[k.owner]

\* C14: a request with a valid active key whose cache read or cache write
\* failed is not answered with an error by the authentication gate.
C14_CacheLossNoError ==
  \A r \in Reqs :
    (req[r].cacheErr /\ ValidActive(req[r].key)) => req[r].by # "auth"

\* processMusic has answered the request in slot r
Answered(r) == req[r].by = "handler" /\ req[r].route = "music"

\* the Search stage of the run in slot r is over: its step is logged
Merged(p) ==
  \E i \in DOMAIN p.processingSteps : p.processingSteps[i].step = "youtube_search"

C16_UnderstandingStepFailed ==
  \A r \in Reqs :
    (run[r].llm = "fail" /\ Answered(r) /\ req[r].status = 200) =>
      \E i \in DOMAIN req[r].body.processingSteps :
        /\ req[r].body.processingSteps[i].step = "llm_processing"
        /\ req[r].body.processingSteps[i].status = "failed"

\* C17: a failing search call, be it one of several or all of them, is not
\* surfaced as an error: the request is answered 200.
C17_SearchFailureTolerated ==
  \A r \in Reqs :
    (run[r].searchFailed /\ Answered(r)) => req[r].status = 200

\* the searched terms, by index, whose result holds the video id
TermsReturning(p, id) ==
  {k \in DOMAIN p.searchResults :
     \E j \in DOMAIN p.searchResults[k].items : p.searchResults[k].items[j].id = id}

\* C18: the merged candidate list has at most one entry per platform ID, and
\* the entry kept for an ID is the copy returned by the earliest search term
\* that returned it, whatever order the searches completed in.
C18_DedupByTermPriority ==
  \A r \in Reqs :
    LET p == run[r]
    IN Merged(p) =>
         /\ \A i, j \in DOMAIN p.uniqueResults :
              p.uniqueResults[i].id = p.uniqueResults[j].id => i = j
         /\ \A i \in DOMAIN p.uniqueResults :
              \E k \in TermsReturning(p, p.uniqueResults[i].id) :
                /\ \A k2 \in TermsReturning(p, p.uniqueResults[i].id) : k <= k2
                /\ p.uniqueResults[i].title = <<"yt", p.searched[k]>>

\* two terms returned the same video, the search of the lower-priority term
\* completed first, and the merged list holds the video
C18_Witness ==
  \E r \in Reqs :
    LET p == run[r]
    IN /\ Merged(p)
       /\ Len(p.completed) >= 2
       /\ p.completed[1] > p.completed[2]
       /\ \E i \in DOMAIN p.uniqueResults :
            {p.completed[1], p.completed[2]}
              \subseteq TermsReturning(p, p.uniqueResults[i].id)

\* C19: searches are issued for the first 3 search terms at most, in term
\* order, and the candidate list handed on has at most maxTracks entries.
C19_FanoutAndCountBounded ==
  \A r \in Reqs :
    LET p == run[r]
        terms == p.processedQuery.searchTerms
    IN /\ Len(p.searched) <= 3
       /\ Len(p.searched) <= Len(terms)
       /\ \A i \in DOMAIN p.searched : p.searched[i] = terms[i]
       /\ Len(p.searchResults) = Len(p.searched)
       /\ p.body.maxTracks >= 1 => Len(p.uniqueResults) <= p.body.maxTracks

\* a query of four terms of which three were searched, and more distinct
\* videos found than maxTracks, of which maxTracks were handed on
C19_Witness ==
  \E r \in Reqs :
    LET p == run[r]
    IN /\ Merged(p)
       /\ Len(p.processedQuery.searchTerms) = 4
       /\ Len(p.searched) = 3
       /\ Len(p.uniqueResults) = p.body.maxTracks
       /\ Cardinality({id \in VideoIds : TermsReturning(p, id) # {}})
            > p.body.maxTracks

\* the tracks of run p made from the candidate with the video id
TracksOf(p, id) == {j \in DOMAIN p.tracks : p.tracks[j].youtubeId = id}

\* C20: every candidate the loop has dealt with is in the track list,
\* whatever failed for it, and a candidate whose download-URL resolution or
\* audio analysis failed is there with analysisStatus = failed.
C20_CandidateIsolation ==
  \A r \in Reqs :
    LET p == run[r]
    IN \A i \in DOMAIN p.failures :
         /\ TracksOf(p, p.uniqueResults[i].id) # {}
         /\ p.failures[i] \cap {"download", "analysis"} # {} =>
              \A j \in TracksOf(p, p.uniqueResults[i].id) :
                p.tracks[j].analysisStatus = "failed"

\* the last track a run has pushed, the one saveTrackToDatabase is called with
LastTrack(p) == p.tracks[Len(p.tracks)]

\* the stored row with this youtube_id (there is one)
StoredRow(table, id) == table[CHOOSE i \in RowsWith(table, id) : TRUE]

\* COALESCE(new, stored) on a column for which absent stands for NULL
Coalesce(new, stored, absent) == IF new # absent THEN new ELSE stored

\* C21: however many runs persist a candidate with the same external platform
\* ID, the tracks table holds at most one row for that ID, and a save stores
\* the run's title together with the run's BPM, or with the BPM stored before
\* when the run has none: a second run with another title and without a BPM
\* leaves the second run's title and the first run's BPM.
C21_IdempotentUpsert ==
  [][/\ \A id \in VideoIds : Cardinality(RowsWith(tracksTable', id)) <= 1
     /\ tracksTable' # tracksTable =>
          LET t == LastTrack(run'[1])
              old == RowsWith(tracksTable, t.youtubeId)
              new == StoredRow(tracksTable', t.youtubeId)
          IN /\ RowsWith(tracksTable', t.youtubeId) # {}
             /\ new.title = t.title
             /\ (old # {} /\ t.bpm = 0) =>
                   new.bpm = StoredRow(tracksTable, t.youtubeId).bpm
             /\ (old = {} \/ t.bpm # 0) => new.bpm = t.bpm]_vars

\* a second run has saved video X without a BPM and with the title of the
\* search result, and the one stored row has that title and the BPM of the
\* run before
C21_Witness ==
  /\ issued = 2
  /\ Len(musicRequests) = 1
  /\ run[1].tracks # <<>>
  /\ LastTrack(run[1]).youtubeId = "X"
  /\ LastTrack(run[1]).bpm = 0
  /\ LastTrack(run[1]).title = <<"yt", "a">>
  /\ "save" \notin run[1].failures[1]
  /\ Cardinality(RowsWith(tracksTable, "X")) = 1
  /\ StoredRow(tracksTable, "X").title = <<"yt", "a">>
  /\ StoredRow(tracksTable, "X").bpm # 0

\* C22: on an upsert conflict bpm, musical key, camelot key and energy level
\* (and loudness and waveform peaks, handled as energy level) take the new
\* value when it is present and keep the stored value when it is absent;
\* title, artist and analysis status take the new value.
C22_ConflictFieldRule ==
  [][(tracksTable' # tracksTable
        /\ RowsWith(tracksTable, LastTrack(run'[1]).youtubeId) # {}) =>
       LET t == LastTrack(run'[1])
           old == StoredRow(tracksTable, t.youtubeId)
           new == StoredRow(tracksTable', t.youtubeId)
       IN /\ new.bpm = Coalesce(t.bpm, old.bpm, 0)
          /\ new.musical_key = Coalesce(t.musicalKey, old.musical_key, "")
          /\ new.camelot_key = Coalesce(t.camelotKey, old.camelot_key, "")
          /\ new.energy_level = Coalesce(t.energyLevel, old.energy_level, NoEnergy)
          /\ new.title = t.title
          /\ new.artist = t.artist
          /\ new.analysis_status = t.analysisStatus]_vars

\* C23: a failure to persist a candidate or to write the request log does
\* not change the HTTP status (a run whose understanding call and searches
\* did not reject is answered 200), does not remove the candidate from the
\* returned tracks, and does not stop the remaining candidates from being
\* processed.
C23_PersistFailureSwallowed ==
  \A r \in Reqs :
    LET p == run[r]
    IN /\ (Answered(r) /\ p.body.request # NULL
              /\ p.llm # "throw" /\ ~p.searchFailed) =>
            /\ req[r].status = 200
            /\ Len(p.failures) = Len(p.uniqueResults)
            /\ req[r].body.tracks = p.tracks
       /\ \A i \in DOMAIN p.failures :
            ("save" \in p.failures[i]) =>
              TracksOf(p, p.uniqueResults[i].id) # {}

\* a run is answered although the save of its first candidate and the write
\* of the request log failed; both candidates are in the response
C23_Witness ==
  /\ Answered(1)
  /\ req[1].status = 200
  /\ run[1].logFailed
  /\ Len(run[1].uniqueResults) = 2
  /\ "save" \in run[1].failures[1]
  /\ Len(req[1].body.tracks) = 2
  /\ tracksTable # <<>>

\* C24: the confidence the scorer returns is exactly 0 for an empty list of
\* tracks and lies in [0, 1] (in thousandths: 0..1000) for every combination
\* of candidate count, analysed count and BPM-match count.
C24_ConfidenceBounds ==
  scoring.called =>
    /\ scoring.tracks = <<>> => scoring.confidence = 0
    /\ scoring.confidence >= 0
    /\ scoring.confidence <= 1000

\* four analysed tracks that all match the BPM filter: the terms add up to
\* 1.2 and the result is 1
C24_Witness ==
  /\ scoring.called
  /\ Len(scoring.tracks) = MaxScoreTracks
  /\ scoring.processedQuery.filters = BpmFilter
  /\ \A i \in DOMAIN scoring.tracks :
       scoring.tracks[i] = [analysisStatus |-> "completed", bpm |-> 125]
  /\ scoring.confidence = 1000

\* the reference formula of the scorer, in thousandths: 0 without a
\* candidate, else 0.5 + min(count/10, 0.3) + (analysed/count)*0.2 when
\* analysed > 0, + (bpmMatching/analysed)*0.2 when a BPM filter is present and
\* analysed > 0, clamped to 1
ReferenceScore(processedQuery, tracks) ==
  LET count == Len(tracks)
      analysedAt == {i \in DOMAIN tracks : tracks[i].analysisStatus = "completed"}
      analysed == Cardinality(analysedAt)
      bpm == processedQuery.filters.bpm
      bpmMatching ==
        Cardinality({i \in analysedAt : bpm # <<>> /\ InBpmRange(tracks[i], bpm[1])})
      sum == 500 + Min(count * 100, 300)
               + (IF analysed > 0 THEN (analysed * 200) \div count ELSE 0)
               + (IF bpm # <<>> /\ analysed > 0
                  THEN (bpmMatching * 200) \div analysed ELSE 0)
  IN IF count = 0 THEN 0 ELSE IF sum > 1000 THEN 1000 ELSE sum

\* the tracks with the BPM of every track whose analysis did not complete
\* taken away
WithoutUnanalysedBpm(tracks) ==
  [i \in DOMAIN tracks |->
     IF tracks[i].analysisStatus = "completed" THEN tracks[i]
     ELSE [tracks[i] EXCEPT !.bpm = 0]]

\* C28: the scorer equals the reference formula, and the tracks whose
\* analysis did not complete contribute nothing to the BPM term: their BPM
\* does not change the result.
C28_ScorerEqualsReference ==
  scoring.called =>
    /\ scoring.confidence = ReferenceScore(scoring.processedQuery, scoring.tracks)
    /\ scoring.confidence =
         calculateConfidenceScore(scoring.processedQuery,
                                  WithoutUnanalysedBpm(scoring.tracks))

\* a BPM filter, a track in its range whose analysis failed and an analysed
\* track out of its range: 0.5 + 0.2 + 0.1 + 0
C28_Witness ==
  /\ scoring.called
  /\ scoring.processedQuery.filters = BpmFilter
  /\ scoring.tracks = <<[analysisStatus |-> "failed", bpm |-> 125],
                        [analysisStatus |-> "completed", bpm |-> 210]>>
  /\ scoring.confidence = 800

\* C25: every POST /v1/music/process request that passes validation
\* eventually receives a response, also when a collaborator never answers.
C25_EveryRequestAnswered ==
  \A r \in {1} : (req[r].pc = "p_llm") ~> Answered(r)

\* the stage a request is in: Understand, Search, Enrich/Analyze, Score
\* (with the request log), Done; 0 outside processMusic
StageOf(pc) ==
  CASE pc = "p_llm" -> 1
    [] pc = "p_search" -> 2
    [] pc = "p_track" -> 3
    [] pc = "p_log" -> 4
    [] pc = "responded" -> 5
    [] OTHER -> 0

StepNames(steps) == [i \in DOMAIN steps |-> steps[i].step]

\* C26: a request never goes back to an earlier stage, every 200 response
\* lists the steps llm_processing, youtube_search, track_processing once each
\* in that order, and its confidence is the score of the tracks at hand after
\* every candidate was processed.
C26_StagesInOrder ==
  /\ [](\A r \in Reqs :
          (Answered(r) /\ req[r].status = 200) =>
            /\ StepNames(req[r].body.processingSteps) =
                 <<"llm_processing", "youtube_search", "track_processing">>
            /\ run[r].next = Len(run[r].uniqueResults) + 1
            /\ Len(run[r].failures) = Len(run[r].uniqueResults)
            /\ req[r].body.confidence =
                 calculateConfidenceScore(run[r].processedQuery, run[r].tracks))
  /\ [][\A r \in Reqs :
          (StageOf(req[r].pc) > 0 /\ StageOf(req'[r].pc) > 0) =>
            /\ StageOf(req'[r].pc) >= StageOf(req[r].pc)
            /\ StageOf(req'[r].pc) = StageOf(req[r].pc) => req[r].pc = "p_track"]_vars

\* a 200 response after both candidates were processed, the first of which
\* was dropped
C26_Witness ==
  /\ Answered(1)
  /\ req[1].status = 200
  /\ Len(run[1].uniqueResults) = 2
  /\ "extract" \in run[1].failures[1]
  /\ Len(req[1].body.tracks) = 1
  /\ Len(req[1].body.processingSteps) = 3
  /\ req[1].body.confidence > 0

\* C27: for a candidate whose audio analysis succeeded, bpm and musicalKey
\* are the analysis values whenever the analysis provides them, whatever the
\* language-model metadata had set; genre and mood set from the language-model
\* metadata stay, and the analysis fills them only when they are unset.
C27_AnalysisAuthoritative ==
  \A r \in Reqs :
    LET p == run[r]
    IN \A i \in DOMAIN p.inputs :
         p.inputs[i].analysis # <<>> =>
           LET analysis == p.inputs[i].analysis[1]
               llmMetadata == p.inputs[i].llmMetadata
               at == TracksOf(p, p.uniqueResults[i].id)
           IN /\ at # {}
              /\ \A j \in at :
                   LET t == p.tracks[j]
                   IN /\ t.analysisStatus = "completed"
                      /\ analysis.bpm # 0 => t.bpm = analysis.bpm
                      /\ analysis.musicalKey # "" => t.musicalKey = analysis.musicalKey
                      /\ llmMetadata.genre # "" => t.genre = llmMetadata.genre
                      /\ llmMetadata.mood # "" => t.mood = llmMetadata.mood
                      /\ llmMetadata.genre = "" => t.genre = analysis.genre
                      /\ llmMetadata.mood = "" => t.mood = analysis.mood

\* the language model named genre, mood, bpm and key of the first candidate
\* and the analysis found other values: bpm and key are the analysis values,
\* genre and mood the language model's
C27_Witness ==
  /\ Len(run[1].inputs) >= 1
  /\ run[1].inputs[1].analysis # <<>>
  /\ run[1].inputs[1].analysis[1].bpm = 125
  /\ run[1].inputs[1].llmMetadata.bpm = 100
  /\ run[1].tracks # <<>>
  /\ run[1].tracks[1].bpm = 125
  /\ run[1].tracks[1].musicalKey = "C"
  /\ run[1].tracks[1].genre = "house"
  /\ run[1].tracks[1].mood = "dark"

\* C29: under any interleaving of concurrent requests of one subject inside
\* one window, the number of requests the rate limiter admits in the window
\* never exceeds the plan limit, and the window counter never exceeds the
\* number of checks performed.
C29_NoOverAdmission ==
  \A k \in Keys :
    /\ admitted[k] <= LimitsFor(PlanOf(k[1])).requests
    /\ store[k].val <= hits[k]

\* C30: the authentication gate never admits a request whose API key or user
\* is inactive in the tables at the time of the request, also when the key
\* was resolved and cached while it was still active.
C30_NoInactiveAdmitted ==
  \A r \in Reqs : req[r].user # NULL => ~req[r].inactiveOnArrival

\* C38: in a 200 response of processMusic to a body with maxTracks >= 1,
\* totalFound is the number of returned tracks, which is at most maxTracks,
\* and no two returned tracks have the same video id.
C38_ResponseTracksBounded ==
  \A r \in Reqs :
    (Answered(r) /\ req[r].status = 200 /\ run[r].body.maxTracks >= 1) =>
      LET b == req[r].body
      IN /\ b.totalFound = Len(b.tracks)
         /\ Len(b.tracks) <= run[r].body.maxTracks
         /\ \A i, j \in DOMAIN b.tracks :
              b.tracks[i].youtubeId = b.tracks[j].youtubeId => i = j

\* a 200 response with maxTracks tracks of different videos, one of which
\* was found by two search terms
C38_Witness ==
  \E r \in Reqs :
    /\ Answered(r) /\ req[r].status = 200
    /\ Len(req[r].body.tracks) = run[r].body.maxTracks
    /\ Len(req[r].body.tracks) >= 2
    /\ \E id \in VideoIds : Cardinality(TermsReturning(run[r], id)) >= 2

\* the candidate of run p that the track with this video id was made from
CandidateOf(p, id) == CHOOSE i \in DOMAIN p.uniqueResults : p.uniqueResults[i].id = id

\* C37: for every track of a 200 response, analysisStatus is completed if and
\* only if the analysis was requested and both the download-URL resolution and
\* the audio analysis succeeded for it, failed if it was requested and one of
\* them failed, and pending if it was not requested; the confidence counts
\* the completed tracks, and only them, as analysed.
C37_AnalysisStatusMeaning ==
  \A r \in Reqs :
    (Answered(r) /\ req[r].status = 200) =>
      LET p == run[r]
          b == req[r].body
      IN /\ \A j \in DOMAIN b.tracks :
              LET t == b.tracks[j]
                  failed == p.failures[CandidateOf(p, t.youtubeId)]
                  broke == failed \cap {"download", "analysis"} # {}
              IN /\ t.analysisStatus = "completed"
                      <=> (p.body.analyzeAudio /\ ~broke)
                 /\ (p.body.analyzeAudio /\ broke) => t.analysisStatus = "failed"
                 /\ ~p.body.analyzeAudio => t.analysisStatus = "pending"
         /\ b.confidence = ReferenceScore(p.processedQuery, b.tracks)

\* a 200 response to a request for analysis with one track completed and one
\* failed because its analysis failed after its download URL was resolved
C37_Witness ==
  \E r \in Reqs :
    /\ Answered(r) /\ req[r].status = 200
    /\ run[r].body.analyzeAudio
    /\ Len(req[r].body.tracks) = 2
    /\ req[r].body.tracks[1].analysisStatus = "completed"
    /\ req[r].body.tracks[2].analysisStatus = "failed"
    /\ run[r].failures[2] = {"analysis"}
    /\ req[r].body.confidence = 800

SentBy(q, who) == Len(SelectSeq(q.sent, LAMBDA w : w = who))

\* authMiddleware has not returned yet for request q
InAuth(q) == q.pc \in {"auth", "auth_cached", "auth_found", "auth_attach"}

\* rateLimitMiddleware has not returned yet for request q
InRateLimit(q) == q.pc \in {"rl_get", "rl_check", "rl_incremented", "rl_expired"}

\* C36: for every request, authMiddleware and rateLimitMiddleware each end in
\* exactly one outcome, either one error response and no call of next, or one
\* call of next and no response of their own, also when a store call of
\* theirs fails part-way; a middleware that was not reached does neither.
C36_OneOutcomePerMiddleware ==
  \A r \in Reqs :
    LET q == req[r]
        auth == SentBy(q, "auth") + q.authNext
        rateLimit == SentBy(q, "rateLimit") + q.nextCalls
    IN /\ auth <= 1 /\ rateLimit <= 1
       /\ (q.pc # "idle" /\ ~InAuth(q)) => auth = 1
       /\ (q.pc # "idle" /\ ~InAuth(q) /\ ~InRateLimit(q)) =>
            rateLimit = IF q.authNext = 1 /\ q.route = "music" THEN 1 ELSE 0
       /\ Len(q.sent) <= 1

\* a request whose redis.incr failed after the counter was read was handed on
\* by the rate limiter's catch, exactly once, and answered by the handler
C36_Witness ==
  \E r \in Reqs :
    /\ req[r].storeErr /\ req[r].rl = "failopen"
    /\ req[r].rateLimitInfo # NoInfo
    /\ req[r].nextCalls = 1 /\ req[r].authNext = 1
    /\ req[r].sent = <<"handler">>

\* the counter key of subject u in the window the clock is in
CurrentKey(u) == <<u, WindowStartOf(now, LimitsFor(PlanOf(u)).windowMs)>>

\* C31: a request that authMiddleware rejects (missing, malformed, unknown or
\* inactive key) reaches neither the rate limiter nor the handler and leaves
\* every rate-limit counter as it is; a counter changes only under a request
\* that passed authentication, and a request that is admitted has added
\* exactly one to the counter of its subject's current window.
C31_AuthFailureLeavesCounters ==
  /\ [](\A r \in Reqs :
          req[r].by = "auth" =>
            /\ req[r].authNext = 0 /\ req[r].nextCalls = 0
            /\ req[r].ordS = 0 /\ req[r].rl = "none" /\ ~req[r].listener
            /\ req[r].sent = <<"auth">>)
  /\ [][/\ \A k \in Keys :
             store'[k] # store[k] =>
               \E r \in Reqs :
                 /\ req[r].authNext = 1 /\ req[r].user = k[1]
                 /\ KeyOf(req[r]) = k
                 /\ req[r].pc \in {"rl_check", "rl_incremented"}
        /\ \A r \in Reqs :
             (req'[r] # req[r] /\ (InAuth(req[r]) \/ InAuth(req'[r]))) =>
               store' = store
        /\ \A r \in Reqs :
             (req'[r].rl = "admitted" /\ req[r].rl # "admitted") =>
               LET k == KeyOf(req[r])
               IN /\ k = CurrentKey(req[r].user)
                  /\ store'[k].val = req[r].requestCount + 1
                  /\ \A k2 \in Keys \ {k} : store'[k2] = store[k2]]_vars

\* the key of user u1 is turned down as inactive after two requests of user
\* u2 were admitted: the counter of u2 stands at two, that of u1 at zero
C31_Witness ==
  \E r \in Reqs :
    /\ req[r].by = "auth" /\ req[r].status = 401
    /\ req[r].key = IssuedKey("u1") /\ req[r].inactiveOnArrival
    /\ store[CurrentKey("u2")].val = 2
    /\ admitted[CurrentKey("u2")] = 2
    /\ store[CurrentKey("u1")].val = 0

\* C32: rate-limit decisions are per subject: no step of a request of one
\* subject changes a counter of another subject, and the count a request is
\* decided on, its admission and its reported remaining quota are those of
\* its ordinal among the requests of its own subject in the window, whatever
\* the other subject has sent.
C32_PerSubjectIsolation ==
  /\ [](\A r \in Reqs :
          LET q == req[r]
              L == SustainedLimit(q)
          IN Decided(q) =>
               /\ q.requestCount = Min(q.ordS - 1, L)
               /\ q.rl = "admitted" <=> q.ordS <= L
               /\ q.rateLimitInfo.remaining = Max(0, L - q.ordS)
               /\ q.rateLimitInfo.limit = L)
  /\ [][\A r \in Reqs, k \in Keys :
          (req'[r] # req[r] /\ k[1] # req[r].user /\ k[1] # req'[r].user) =>
            store'[k] = store[k]]_vars

\* the third request of user u1 in a window is denied at its own limit while
\* user u2, whose requests came in between, stands at two admitted requests
C32_Witness ==
  \E r \in Reqs :
    /\ req[r].user = "u1" /\ req[r].rl = "denied" /\ req[r].ordS = 3
    /\ store[<<"u2", req[r].windowStart>>].val = 2
    /\ store[<<"u1", req[r].windowStart>>].val = 2

\* C33: getRateLimitStatus is read-only and agrees with the middleware: a
\* call changes no counter; its remaining is never negative; and a call made
\* in the same window right after a request was admitted, with no request in
\* between, returns the remaining that the X-RateLimit-Remaining header of
\* that request reported, together with the same limit and reset time.
C33_StatusAgreesReadOnly ==
  /\ [](ops.op = "status" /\ ~ops.threw =>
          /\ ops.info.remaining >= 0
          /\ ops.info.limit = LimitsFor(PlanOf(ops.user)).requests
          /\ \A r \in Reqs :
               (/\ ops.after /\ req[r].id = ops.id /\ req[r].id # 0
                /\ req[r].windowStart = ops.window) =>
                 /\ ops.info.remaining = req[r].headers["X-RateLimit-Remaining"]
                 /\ ops.info.remaining = req[r].rateLimitInfo.remaining
                 /\ ops.info.limit = req[r].headers["X-RateLimit-Limit"]
                 /\ ops.info.resetTime = req[r].rateLimitInfo.resetTime)
  /\ [][ops'.n # ops.n =>
          /\ store' = store
          /\ UNCHANGED <<recent, apiUsage, req, hits, admitted, authCache>>]_vars

\* the second request of user u1 in a window was admitted with one request
\* remaining less than before, and the call that followed it in the same
\* window returned the remaining of its header
C33_Witness ==
  /\ ops.op = "status" /\ ~ops.threw /\ ops.after
  /\ req[1].id = ops.id /\ req[1].ordS = 2
  /\ req[1].windowStart = ops.window
  /\ ops.info.remaining = FreeRequests - 2
  /\ req[1].headers["X-RateLimit-Remaining"] = FreeRequests - 2

\* request q is the first whose rate-limit check began, in the window of the
\* reset, after resetRateLimit of its user had returned
FirstAfterReset(q) ==
  /\ ops.op = "reset" /\ ~ops.threw /\ ops.clear
  /\ q.user = ops.user /\ Decided(q)
  /\ q.windowStart = ops.window
  /\ q.ordS = ops.hits[q.windowStart] + 1

\* C34: resetRateLimit(userId) deletes the rate-limit counters of that user
\* and of no other user: the keys it found are gone, and all counters of the
\* user when no rate-limit check of the user overlaps the call; the counters
\* of other users are as before; the next request of the user in the current
\* window is admitted with remaining = limit - 1; and a call made while the
\* Redis client is not connected throws and changes nothing.
C34_ResetFrame ==
  /\ [](\A r \in Reqs :
          FirstAfterReset(req[r]) =>
            /\ req[r].rl = "admitted"
            /\ req[r].requestCount = 0
            /\ req[r].rateLimitInfo.remaining = SustainedLimit(req[r]) - 1
            /\ req[r].headers["X-RateLimit-Remaining"] = SustainedLimit(req[r]) - 1)
  /\ [][/\ (ops.op = "reset_keys" /\ ops'.op = "reset") =>
             /\ \A k \in ops.keys : store'[k].val = 0
             /\ \A k \in Keys : k[1] # ops.user => store'[k] = store[k]
             /\ ops'.clear => \A k \in Keys : k[1] = ops.user => store'[k].val = 0
             /\ UNCHANGED <<recent, apiUsage, req, authCache>>
        /\ (ops'.n # ops.n /\ ops'.op = "reset_keys") => store' = store
        /\ (ops'.n # ops.n /\ ops'.threw) =>
             /\ ops'.op = "reset" /\ ops'.keys = {}
             /\ store' = store
             /\ UNCHANGED <<recent, apiUsage, req, authCache>>]_vars

\* user u1 had used requests of the window, resetRateLimit deleted its
\* counter, and the next request of u1 in that window was admitted with
\* remaining = limit - 1 although it is not the first of the window
C34_Witness ==
  \E r \in Reqs :
    /\ FirstAfterReset(req[r])
    /\ ops.keys # {}
    /\ req[r].ordS >= 2
    /\ req[r].rateLimitInfo.remaining = FreeRequests - 1

====
